---- MODULE Spec2Model ----
(***************************************************************************)
(* The invoice memory engine: recall -> apply -> decide -> learn over a    *)
(* persistent memory store.                                                *)
(*                                                                         *)
(* Numbers.  Confidences and scores are kept in hundredths (0.05 is 5,     *)
(* 0.95 is 95), money in cents, dates in whole days.  The code computes in *)
(* IEEE doubles; every confidence it produces is a sum of multiples of     *)
(* 0.05, which the model adds exactly.                                     *)
(*                                                                         *)
(* Optional values.  A JavaScript value that may be undefined is a set:    *)
(* {} is undefined, {v} is the value v.                                    *)
(***************************************************************************)
EXTENDS Integers, Sequences, FiniteSets, TLC

VARIABLES
    store,      \* the memories table, rows in insertion (rowid) order
    nextUuid,   \* how many uuidv4() memory ids have been drawn
    clock,      \* new Date(): the number of calls made so far
    call,       \* the last call made: its name and its arguments
    ret         \* what the last call returned

vars == <<store, nextUuid, clock, call, ret>>

----------------------------------------------------------------------------
(* Optional values and small helpers *)

Undefined == {}

Some(v) == {v}

IsDefined(o) == o # {}

Get(o) == CHOOSE v \in o : TRUE

\* a ?? b
OrElse(o, d) == IF o # {} THEN o ELSE d

\* The element of a one-element set.  Only({F(x) : x \in {e}}) is F(e) with
\* e evaluated once.
Only(S) == CHOOSE x \in S : TRUE

Max(a, b) == IF a >= b THEN a ELSE b

Min(a, b) == IF a <= b THEN a ELSE b

Abs(a) == IF a >= 0 THEN a ELSE 0 - a

Range(s) == {s[i] : i \in 1..Len(s)}

----------------------------------------------------------------------------
(* Strings *)

UpperLetters == "ABCDEFGHIJKLMNOPQRSTUVWXYZ"

LowerLetters == "abcdefghijklmnopqrstuvwxyz"

CharAt(s, i) == SubSeq(s, i, i)

LowerMap ==
    [c \in {CharAt(UpperLetters, k) : k \in 1..Len(UpperLetters)} |->
        CharAt(LowerLetters, CHOOSE k \in 1..Len(UpperLetters) : CharAt(UpperLetters, k) = c)]

LowerChar(c) == IF c \in DOMAIN LowerMap THEN LowerMap[c] ELSE c

RECURSIVE LowerRange(_, _, _)
\* the characters a..b of s in lower case, by halves
LowerRange(s, a, b) ==
    IF a > b THEN ""
    ELSE IF a = b THEN LowerChar(CharAt(s, a))
    ELSE LowerRange(s, a, (a + b) \div 2) \o LowerRange(s, (a + b) \div 2 + 1, b)

\* The strings the inputs of the model are made of, and the JSON keys
VendorNames == {"Acme", "ACME", "Globex"}

InvoiceNumbers == {"INV-1", "INV-2"}

RawTexts == {"Rechnung inkl. MwSt.", "Rechnung"}

ApplyTexts == RawTexts \cup {"Zahlbar mit 2% Skonto, Betrag 100 USD"}

Descriptions == {"Seefracht", "Schrauben"}

KnownStrings ==
    VendorNames \cup InvoiceNumbers \cup ApplyTexts \cup Descriptions
    \cup {"INV-0", "vendor", "correction", "resolution", "duplicate", "approved", "rejected",
          "taxAmount", "grossAmount", "vatIncluded", "freightSku", "serviceDate", "currency",
          "skonto", "paymentTermsNormalized", "lineItem:1:sku", "lineItem:2:sku", "FREIGHT",
          "category", "vendorName", "invoiceNumber", "invoiceDate", "field",
          "resolutionStatus", "confidence", "usageCount", "metadata", "value",
          "proposedValue", "isDuplicate", "true", "false", "v"}
    \cup {"2024-01-" \o (IF d < 10 THEN "0" ELSE "") \o ToString(d) \o "T00:00:00.000Z" : d \in 1..31}

\* toLowerCase of the known strings, computed once
LowerCache == [s \in KnownStrings |-> LowerRange(s, 1, Len(s))]

\* String.prototype.toLowerCase (ASCII letters)
ToLowerCase(s) == IF s \in KnownStrings THEN LowerCache[s] ELSE LowerRange(s, 1, Len(s))

\* String.prototype.includes
Includes(hay, needle) ==
    \E i \in 1..(Len(hay) - Len(needle) + 1) : SubSeq(hay, i, i + Len(needle) - 1) = needle

StartsWith(s, p) == Len(s) >= Len(p) /\ SubSeq(s, 1, Len(p)) = p

EndsWith(s, p) == Len(s) >= Len(p) /\ SubSeq(s, Len(s) - Len(p) + 1, Len(s)) = p

----------------------------------------------------------------------------
(* Values, dates, identifiers *)

\* An `unknown` value carried by a correction or a memory's metadata
StrVal(s) == [t |-> "string", s |-> s, n |-> 0]

NumVal(n) == [t |-> "number", s |-> "", n |-> n]

TwoDigits(n) == IF n < 10 THEN "0" \o ToString(n) ELSE ToString(n)

\* Date.prototype.toISOString for day d of the modelled month
ToISOString(d) == "2024-01-" \o TwoDigits(d) \o "T00:00:00.000Z"

\* new Date(s).getTime() in days: {} is NaN (an invalid date)
DateParse(s) ==
    IF \E d \in 1..31 : ToISOString(d) = s
    THEN Some(CHOOSE d \in 1..31 : ToISOString(d) = s)
    ELSE Undefined

\* the n-th id uuidv4() hands out
Uuid(n) == "uuid-" \o ToString(n)

\* JSON's rendering of a number kept in hundredths
DecimalText(h) ==
    LET a == Abs(h)
        frac == a % 100
        digits == IF frac = 0 THEN ""
                  ELSE IF frac % 10 = 0 THEN "." \o ToString(frac \div 10)
                  ELSE "." \o TwoDigits(frac)
    IN (IF h < 0 THEN "-" ELSE "") \o ToString(a \div 100) \o digits

----------------------------------------------------------------------------
(* Memory records and their JSON content (models/memory.ts) *)

NoMetadata == [field |-> {}, value |-> {}, proposedValue |-> {}, isDuplicate |-> {}]

\* The object JSON.parse(memory.content) yields.  json = FALSE: the text is
\* not JSON and JSON.parse throws; raw is then the text itself.
EmptyContent ==
    [json |-> TRUE, raw |-> "",
     category |-> {}, vendorName |-> {}, invoiceNumber |-> {}, invoiceDate |-> {},
     field |-> {}, resolutionStatus |-> {}, confidence |-> {}, usageCount |-> {},
     metadata |-> {}]

\* A content string that is not JSON
TextContent(text) == [EmptyContent EXCEPT !.json = FALSE, !.raw = text]

\* JSON.stringify: properties whose value is undefined are left out, which
\* is how an absent property is kept here
JSONStringify(obj) == [obj EXCEPT !.json = TRUE, !.raw = ""]

\* try { JSON.parse(content) } catch { {} }
ParseOrEmpty(content) == IF content.json THEN content ELSE EmptyContent

\* A piece of the content text: as written, or in lower case
Piece(s, fold) == IF fold THEN ToLowerCase(s) ELSE s

JsonProp(key, o, fold) ==
    IF o = {} THEN ""
    ELSE "\"" \o Piece(key, fold) \o "\":\"" \o Piece(Get(o), fold) \o "\""

JsonNum(key, o, fold) ==
    IF o = {} THEN "" ELSE "\"" \o Piece(key, fold) \o "\":" \o Get(o)

JsonValue(key, o, fold) ==
    IF o = {} THEN ""
    ELSE IF Get(o).t = "string" THEN JsonProp(key, {Get(o).s}, fold)
    ELSE JsonNum(key, {DecimalText(Get(o).n)}, fold)

RECURSIVE JoinProps(_, _)
\* the properties that are present, separated by commas
JoinProps(props, i) ==
    IF i > Len(props) THEN ""
    ELSE IF props[i] = "" THEN JoinProps(props, i + 1)
    ELSE LET rest == JoinProps(props, i + 1)
         IN IF rest = "" THEN props[i] ELSE props[i] \o "," \o rest

MetadataText(md, fold) ==
    "\"" \o Piece("metadata", fold) \o "\":{"
    \o JoinProps(<<JsonProp("field", md.field, fold),
                   JsonValue("value", md.value, fold),
                   JsonValue("proposedValue", md.proposedValue, fold),
                   JsonNum("isDuplicate",
                           {IF b THEN "true" ELSE "false" : b \in md.isDuplicate}, fold)>>, 1)
    \o "}"

\* The JSON text of a content; with fold, the same text in lower case
\* (every key and value is put in lower case, digits and punctuation have
\* none)
RenderContent(c, fold) ==
    IF ~c.json THEN Piece(c.raw, fold)
    ELSE "{" \o JoinProps(<<JsonProp("category", c.category, fold),
                            JsonProp("vendorName", c.vendorName, fold),
                            JsonProp("invoiceNumber", c.invoiceNumber, fold),
                            JsonProp("invoiceDate", c.invoiceDate, fold),
                            JsonProp("field", c.field, fold),
                            JsonProp("resolutionStatus", c.resolutionStatus, fold),
                            JsonNum("confidence", {DecimalText(x) : x \in c.confidence}, fold),
                            JsonNum("usageCount", {ToString(x) : x \in c.usageCount}, fold),
                            IF c.metadata = {} THEN ""
                            ELSE MetadataText(Get(c.metadata), fold)>>, 1)
             \o "}"

\* memory.content, the string the repository stores
ContentText(c) == RenderContent(c, FALSE)

Memory(id, kind, content, createdAt, updatedAt, source) ==
    [id |-> id, kind |-> kind, content |-> content,
     createdAt |-> createdAt, updatedAt |-> updatedAt, source |-> source]

----------------------------------------------------------------------------
(* The memory repository (memory/memoryRepository.ts) *)

LIMIT_DEFAULT == 50

IndexOfId(st, id) ==
    LET I == {i \in 1..Len(st) : st[i].id = id}
    IN IF I = {} THEN 0 ELSE CHOOSE i \in I : TRUE

\* A table that keeps its two newest rows: an insert beyond that drops the
\* oldest row
SaveMemoryEvicting(st, memory) ==
    LET i == IndexOfId(st, memory.id)
    IN IF i # 0 THEN [st EXCEPT ![i] = memory]
       ELSE IF Len(st) >= 2 THEN Append(Tail(st), memory)
       ELSE Append(st, memory)

\* INSERT ... ON CONFLICT(id) DO UPDATE: the row keeps its place
SaveMemory(st, memory) ==
    LET i == IndexOfId(st, memory.id)
    IN IF i = 0 THEN Append(st, memory) ELSE [st EXCEPT ![i] = memory]

GetMemoryById(st, id) ==
    LET i == IndexOfId(st, id)
    IN IF i = 0 THEN Undefined ELSE Some(st[i])

\* content LIKE '%query%': SQLite's LIKE ignores the case of ASCII letters
Like(content, query) == Includes(RenderContent(content, TRUE), ToLowerCase(query))

\* The elements of s at the indices in K, in ascending order of index
AtIndices(s, K) ==
    [p \in 1..Cardinality(K) |-> s[CHOOSE k \in K : Cardinality({j \in K : j <= k}) = p]]

\* The first limit rows from row i on whose content matches, in row order
TakeMatches(st, query, limit, i) ==
    LET matching == {k \in i..Len(st) : Like(st[k].content, query)}
    IN AtIndices(st, {k \in matching : Cardinality({j \in matching : j <= k}) <= limit})

\* SELECT ... WHERE content LIKE ? LIMIT ?
SearchMemories(st, query, limit) == TakeMatches(st, query, limit, 1)

----------------------------------------------------------------------------
(* Learn (engine/learn.ts) *)

INITIAL_CONFIDENCE_APPROVED == 80

INITIAL_CONFIDENCE_REJECTED == 50

DEFAULT_CONFIDENCE == 70

CONFIDENCE_STEP == 5

CONFIDENCE_CAP == 95

\* An initial confidence that ignores the approval
InitialConfidenceUnapproved(approved) == INITIAL_CONFIDENCE_REJECTED

InitialConfidence(approved) ==
    IF approved THEN INITIAL_CONFIDENCE_APPROVED ELSE INITIAL_CONFIDENCE_REJECTED

\* field.startsWith('lineItem:') && field.endsWith(':sku'), on a defined, non-empty field
IsLineItemSkuField(field) ==
    /\ field # {}
    /\ Get(field) # ""
    /\ StartsWith(Get(field), "lineItem:")
    /\ EndsWith(Get(field), ":sku")

IsVatField(field) == field = {"taxAmount"} \/ field = {"grossAmount"}

\* A category that no field name changes
InferCategoryKept(field, category) == category

\* The category the two special field mappings give, else the given one
InferCategory(field, category) ==
    IF IsLineItemSkuField(field) \/ IsVatField(field) THEN "vendor" ELSE category

\* A stored field that is never remapped: the memory keeps the name of the
\* corrected field
InferStoredFieldVerbatim(field, storedField) == storedField

\* The stored field the two special field mappings give, else the given one
InferStoredField(field, storedField) ==
    IF IsLineItemSkuField(field) THEN {"freightSku"}
    ELSE IF IsVatField(field) THEN {"vatIncluded"}
    ELSE storedField

\* delta = 0.05 * (signal.feedbackScore ?? 1)
LearnDelta(feedbackScore) == CONFIDENCE_STEP * Get(OrElse(feedbackScore, {1}))

\* The reinforcement without Math.max(..., 0): a decay that can go below 0
ReinforcedConfidenceUnfloored(currentConfidence, approved, feedbackScore) ==
    IF approved
    THEN Min(currentConfidence + LearnDelta(feedbackScore), CONFIDENCE_CAP)
    ELSE currentConfidence - LearnDelta(feedbackScore)

\* The reinforcement without Math.min(..., 0.95): a growth that can pass 0.95
ReinforcedConfidenceUncapped(currentConfidence, approved, feedbackScore) ==
    IF approved
    THEN currentConfidence + LearnDelta(feedbackScore)
    ELSE Max(currentConfidence - LearnDelta(feedbackScore), 0)

\* learn.ts 101-108: the confidence an existing memory gets
ReinforcedConfidence(currentConfidence, approved, feedbackScore) ==
    IF approved
    THEN Min(currentConfidence + LearnDelta(feedbackScore), CONFIDENCE_CAP)
    ELSE Max(currentConfidence - LearnDelta(feedbackScore), 0)

\* A create path with a third field mapping: an approved or rejected
\* paymentTermsNormalized is stored as the vendor memory skonto
CreatedMemoryMappingSkonto(d, now) ==
    LET mapped == d.field = {"paymentTermsNormalized"}
        storedField == IF mapped THEN {"skonto"} ELSE InferStoredField(d.field, d.field)
        baseMetadata ==
            [field |-> d.field, value |-> d.value,
             proposedValue |-> IF storedField = {"freightSku"} THEN d.value ELSE {},
             isDuplicate |-> {}]
        content ==
            [EmptyContent EXCEPT
                !.category = {IF mapped THEN "vendor" ELSE InferCategory(d.field, "correction")},
                !.confidence = {InitialConfidence(Get(d.approved))},
                !.usageCount = {1},
                !.metadata = {baseMetadata},
                !.field = storedField,
                !.vendorName = d.vendorName,
                !.invoiceNumber = d.invoiceNumber,
                !.invoiceDate = d.invoiceDate]
    IN Memory(Get(d.memoryId), "long_term", JSONStringify(content), now, now, {"learn"})

\* learn.ts 34-89: the memory created when none exists under memoryId
CreatedMemory(d, now) ==
    LET storedField == InferStoredField(d.field, d.field)
        baseMetadata ==
            [field |-> d.field, value |-> d.value,
             proposedValue |-> IF storedField = {"freightSku"} THEN d.value ELSE {},
             isDuplicate |-> {}]
        content ==
            [EmptyContent EXCEPT
                !.category = {InferCategory(d.field, "correction")},
                !.confidence = {InitialConfidence(Get(d.approved))},
                !.usageCount = {1},
                !.metadata = {baseMetadata},
                !.field = storedField,
                !.vendorName = d.vendorName,
                !.invoiceNumber = d.invoiceNumber,
                !.invoiceDate = d.invoiceDate]
    IN Memory(Get(d.memoryId), "long_term", JSONStringify(content), now, now, {"learn"})

\* An update that adjusts the confidence but does not count the use
UpdatedMemoryUncounted(existing, d, feedbackScore, now) ==
    LET parsed == ParseOrEmpty(existing.content)
        currentConfidence == Get(OrElse(parsed.confidence, {DEFAULT_CONFIDENCE}))
        currentUsage == Get(OrElse(parsed.usageCount, {0}))
        newConfidence == ReinforcedConfidence(currentConfidence, Get(d.approved), feedbackScore)
        updated ==
            [EmptyContent EXCEPT
                !.category = {InferCategory(d.field, Get(OrElse(parsed.category, {"correction"})))},
                !.confidence = {newConfidence},
                !.usageCount = {currentUsage},
                !.metadata = {[Get(OrElse(parsed.metadata, {NoMetadata})) EXCEPT
                                  !.field = d.field, !.value = d.value]},
                !.field = InferStoredField(d.field, OrElse(parsed.field, d.field)),
                !.vendorName = OrElse(parsed.vendorName, d.vendorName),
                !.invoiceNumber = OrElse(parsed.invoiceNumber, d.invoiceNumber),
                !.invoiceDate = OrElse(parsed.invoiceDate, d.invoiceDate)]
    IN [existing EXCEPT !.content = JSONStringify(updated), !.updatedAt = now]

\* An update in which the signal's vendor and invoice context replaces the
\* stored one
UpdatedMemoryRecontexted(existing, d, feedbackScore, now) ==
    LET parsed == ParseOrEmpty(existing.content)
        currentConfidence == Get(OrElse(parsed.confidence, {DEFAULT_CONFIDENCE}))
        currentUsage == Get(OrElse(parsed.usageCount, {0}))
        storedField == InferStoredField(d.field, OrElse(parsed.field, d.field))
        updated ==
            [EmptyContent EXCEPT
                !.category = {InferCategory(d.field, Get(OrElse(parsed.category, {"correction"})))},
                !.confidence = {ReinforcedConfidence(currentConfidence, Get(d.approved),
                                                     feedbackScore)},
                !.usageCount = {currentUsage + 1},
                !.metadata = {[Get(OrElse(parsed.metadata, {NoMetadata})) EXCEPT
                                  !.field = d.field,
                                  !.value = d.value,
                                  !.proposedValue =
                                      IF storedField = {"freightSku"} THEN d.value ELSE @]},
                !.field = storedField,
                !.vendorName = OrElse(d.vendorName, parsed.vendorName),
                !.invoiceNumber = OrElse(d.invoiceNumber, parsed.invoiceNumber),
                !.invoiceDate = OrElse(d.invoiceDate, parsed.invoiceDate)]
    IN [existing EXCEPT !.content = JSONStringify(updated), !.updatedAt = now]

\* learn.ts 91-160: the record written back over an existing memory
UpdatedMemory(existing, d, feedbackScore, now) ==
    LET parsed == ParseOrEmpty(existing.content)
        currentConfidence == Get(OrElse(parsed.confidence, {DEFAULT_CONFIDENCE}))
        currentUsage == Get(OrElse(parsed.usageCount, {0}))
        newConfidence == ReinforcedConfidence(currentConfidence, Get(d.approved), feedbackScore)
        category == InferCategory(d.field, Get(OrElse(parsed.category, {"correction"})))
        storedField == InferStoredField(d.field, OrElse(parsed.field, d.field))
        old == Get(OrElse(parsed.metadata, {NoMetadata}))
        metadata ==
            [old EXCEPT
                !.field = d.field,
                !.value = d.value,
                !.proposedValue = IF storedField = {"freightSku"} THEN d.value ELSE @]
        updated ==
            [EmptyContent EXCEPT
                !.category = {category},
                !.confidence = {newConfidence},
                !.usageCount = {currentUsage + 1},
                !.metadata = {metadata},
                !.field = storedField,
                !.vendorName = OrElse(parsed.vendorName, d.vendorName),
                !.invoiceNumber = OrElse(parsed.invoiceNumber, d.invoiceNumber),
                !.invoiceDate = OrElse(parsed.invoiceDate, d.invoiceDate)]
    IN [existing EXCEPT !.content = JSONStringify(updated), !.updatedAt = now]

\* A resolution record written for duplicates only
WantsResolutionForDuplicates(d) == d.isDuplicate = {TRUE}

\* if (resolutionStatus || isDuplicate)
WantsResolution(d) ==
    (d.resolutionStatus # {} /\ d.resolutionStatus # {""}) \/ d.isDuplicate = {TRUE}

\* learn.ts 163-187: the collateral resolution memory
ResolutionMemory(d, id, now) ==
    LET resolutionContent ==
            [EmptyContent EXCEPT
                !.category = {"resolution"},
                !.vendorName = d.vendorName,
                !.invoiceNumber = d.invoiceNumber,
                !.invoiceDate = d.invoiceDate,
                !.resolutionStatus =
                    OrElse(d.resolutionStatus, IF d.isDuplicate = {TRUE} THEN {"approved"} ELSE {}),
                !.confidence = {InitialConfidence(Get(d.approved))},
                !.usageCount = {1},
                !.metadata = {[NoMetadata EXCEPT !.isDuplicate = {d.isDuplicate = {TRUE}}]}]
    IN Memory(id, "long_term", JSONStringify(resolutionContent), now, now, {"learn:resolution"})

\* A learnFromSignal that makes up what the signal lacks: a fresh id for a
\* missing memoryId, a rejection for a missing approved
LearnFromSignalLenient(st, uuids, now, d, feedbackScore) ==
    LET generated == d.memoryId = {} \/ d.memoryId = {""}
        drawn == IF generated THEN uuids + 1 ELSE uuids
        signal == [d EXCEPT !.memoryId = IF generated THEN {Uuid(drawn)} ELSE @,
                            !.approved = OrElse(@, {FALSE})]
        existing == GetMemoryById(st, Get(signal.memoryId))
    IN IF existing = {}
       THEN LET memory == CreatedMemory(signal, now)
            IN [store |-> SaveMemory(st, memory), uuids |-> drawn, memory |-> {memory}]
       ELSE LET updatedMemory == UpdatedMemory(Get(existing), signal, feedbackScore, now)
                st1 == SaveMemory(st, updatedMemory)
            IN IF WantsResolution(signal)
               THEN [store |-> SaveMemory(st1, ResolutionMemory(signal, Uuid(drawn + 1), now)),
                     uuids |-> drawn + 1, memory |-> {updatedMemory}]
               ELSE [store |-> st1, uuids |-> drawn, memory |-> {updatedMemory}]

\* learnFromSignal(repository, signal): the store after the call, the
\* number of uuids drawn, and the memory returned ({} is undefined)
LearnFromSignal(st, uuids, now, d, feedbackScore) ==
    IF d.memoryId = {} \/ d.memoryId = {""} \/ d.approved = {}
    THEN [store |-> st, uuids |-> uuids, memory |-> {}]
    ELSE LET existing == GetMemoryById(st, Get(d.memoryId))
         IN IF existing = {}
            THEN LET memory == CreatedMemory(d, now)
                 IN [store |-> SaveMemory(st, memory), uuids |-> uuids, memory |-> {memory}]
            ELSE LET updatedMemory == UpdatedMemory(Get(existing), d, feedbackScore, now)
                     st1 == SaveMemory(st, updatedMemory)
                 IN IF WantsResolution(d)
                    THEN [store |-> SaveMemory(st1, ResolutionMemory(d, Uuid(uuids + 1), now)),
                          uuids |-> uuids + 1, memory |-> {updatedMemory}]
                    ELSE [store |-> st1, uuids |-> uuids, memory |-> {updatedMemory}]

----------------------------------------------------------------------------
(* Recall (engine/recall.ts) *)

SCORE_BONUS == 5

DATE_WINDOW_DAYS == 2

SCORE_MAX == 100

DUPLICATE_REASON ==
    "Potential duplicate invoice based on vendor, invoice number and close invoice date."

\* A parse that asks for a confidence only
IsLearnedContentByConfidence(content) ==
    /\ content.json
    /\ content.confidence # {}

\* parseLearnedContent(memory) !== undefined
IsLearnedContent(content) ==
    /\ content.json
    /\ content.confidence # {}
    /\ content.usageCount # {}
    /\ content.category # {}
    /\ content.category # {""}

VendorMatches(content, vendorName) ==
    /\ content.vendorName # {}
    /\ Get(content.vendorName) # ""
    /\ ToLowerCase(Get(content.vendorName)) = ToLowerCase(vendorName)

InvoiceNumberMatches(content, invoiceNumber) ==
    /\ content.invoiceNumber # {}
    /\ Get(content.invoiceNumber) # ""
    /\ Get(content.invoiceNumber) = invoiceNumber

\* A window that reaches back only: stored dates up to 2 days before the
\* query's, none after it
DateIsCloseOneSided(content, invoiceDate) ==
    /\ content.invoiceDate # {}
    /\ Get(content.invoiceDate) # ""
    /\ LET storedDate == DateParse(Get(content.invoiceDate))
       IN /\ storedDate # {}
          /\ Get(storedDate) <= invoiceDate
          /\ invoiceDate - Get(storedDate) <= DATE_WINDOW_DAYS

\* diffDays <= 2; a comparison with NaN is false
DateIsClose(content, invoiceDate) ==
    /\ content.invoiceDate # {}
    /\ Get(content.invoiceDate) # ""
    /\ LET storedDate == DateParse(Get(content.invoiceDate))
       IN storedDate # {} /\ Abs(Get(storedDate) - invoiceDate) <= DATE_WINDOW_DAYS

ScoreMemory(content, vendorName, invoiceNumber, invoiceDate) ==
    LET score == Get(content.confidence)
                 + (IF VendorMatches(content, vendorName) THEN SCORE_BONUS ELSE 0)
                 + (IF InvoiceNumberMatches(content, invoiceNumber) THEN SCORE_BONUS ELSE 0)
                 + (IF DateIsClose(content, invoiceDate) THEN SCORE_BONUS ELSE 0)
    IN Min(score, SCORE_MAX)

\* new Map keyed by id, filled in order: an id keeps its first place
CombineById(ms, i, seen) ==
    AtIndices(ms, {k \in i..Len(ms) :
                      /\ ms[k].id \notin seen
                      /\ \A j \in i..(k - 1) : ms[j].id # ms[k].id})

ScoreAll(ms, query, i) ==
    LET learned == AtIndices(ms, {k \in i..Len(ms) : IsLearnedContent(ms[k].content)})
    IN [p \in DOMAIN learned |->
           [memory |-> learned[p], content |-> learned[p].content,
            score |-> ScoreMemory(learned[p].content, query.vendorName,
                                  query.invoiceNumber, query.invoiceDate)]]

\* Array.prototype.sort((a, b) => b.score - a.score), which is stable: an
\* element goes behind those of a higher score and behind the earlier ones
\* of its own score
SortByScore(ms, n) ==
    LET Before(i) == {j \in 1..n : \/ ms[j].score > ms[i].score
                                    \/ (ms[j].score = ms[i].score /\ j < i)}
    IN [p \in 1..n |-> ms[CHOOSE i \in 1..n : Cardinality(Before(i)) = p - 1]]

\* A filter that leaves the memories of the category in retrieval order
FilterByCategoryUnsorted(memories, category) ==
    SelectSeq(memories, LAMBDA m : m.content.category = {category})

FilterByCategory(memories, category) ==
    LET kept == SelectSeq(memories, LAMBDA m : m.content.category = {category})
    IN SortByScore(kept, Len(kept))

\* The candidate test without the stored invoice date
IsDuplicateCandidateUndated(m, query) ==
    /\ m.content.vendorName # {}
    /\ ToLowerCase(Get(m.content.vendorName)) = ToLowerCase(query.vendorName)
    /\ m.content.invoiceNumber = {query.invoiceNumber}

\* recall.ts 106-110: vendor equal ignoring case, number equal, date truthy
IsDuplicateCandidate(m, query) ==
    /\ m.content.vendorName # {}
    /\ ToLowerCase(Get(m.content.vendorName)) = ToLowerCase(query.vendorName)
    /\ m.content.invoiceNumber = {query.invoiceNumber}
    /\ m.content.invoiceDate # {}
    /\ m.content.invoiceDate # {""}

\* recall.ts 90-96: the candidates of both searches, parsed and scored
ScoredCandidates(st, query) ==
    LET limit == Get(OrElse(query.limit, {LIMIT_DEFAULT}))
        byVendor == SearchMemories(st, query.vendorName, limit)
        byInvoiceNumber == SearchMemories(st, query.invoiceNumber, limit)
    IN ScoreAll(CombineById(byVendor \o byInvoiceNumber, 1, {}), query, 1)

\* recall.ts 98-128: the summary built from the scored candidates
SummaryOf(scored, query) ==
    LET resolutionMemories == FilterByCategory(scored, "resolution")
        duplicateCandidates ==
            SelectSeq(resolutionMemories, LAMBDA m : IsDuplicateCandidate(m, query))
        found == Len(duplicateCandidates) > 0
    IN [vendorMemories |-> FilterByCategory(scored, "vendor"),
        correctionMemories |-> FilterByCategory(scored, "correction"),
        resolutionMemories |-> resolutionMemories,
        duplicateDetected |-> found,
        duplicateScore |-> IF found THEN duplicateCandidates[1].score ELSE 0,
        duplicateReason |-> IF found THEN {DUPLICATE_REASON} ELSE {},
        allMemories |-> scored]

RecallMemories(st, query) ==
    Only({SummaryOf(scored, query) : scored \in {ScoredCandidates(st, query)}})

----------------------------------------------------------------------------
(* Apply (engine/apply.ts) *)

HIGH_CONFIDENCE_THRESHOLD == 80

MEDIUM_CONFIDENCE_THRESHOLD == 70

DEFAULT_VAT_CONFIDENCE == 75

DEFAULT_CURRENCY_CONFIDENCE == 70

DEFAULT_FREIGHT_CONFIDENCE == 75

DEFAULT_SKONTO_CONFIDENCE == 75

VAT_DIVISOR == 119

SKONTO_WINDOW_BEFORE == 40

SKONTO_WINDOW_AFTER == 80

UpperMap ==
    [c \in {CharAt(LowerLetters, k) : k \in 1..Len(LowerLetters)} |->
        CharAt(UpperLetters, CHOOSE k \in 1..Len(LowerLetters) : CharAt(LowerLetters, k) = c)]

UpperChar(c) == IF c \in DOMAIN UpperMap THEN UpperMap[c] ELSE c

RECURSIVE UpperRange(_, _, _)
UpperRange(s, a, b) ==
    IF a > b THEN ""
    ELSE IF a = b THEN UpperChar(CharAt(s, a))
    ELSE UpperRange(s, a, (a + b) \div 2) \o UpperRange(s, (a + b) \div 2 + 1, b)

UpperCache == [s \in ApplyTexts |-> UpperRange(s, 1, Len(s))]

\* String.prototype.toUpperCase (ASCII letters)
ToUpperCase(s) == IF s \in ApplyTexts THEN UpperCache[s] ELSE UpperRange(s, 1, Len(s))

\* a / b rounded to the nearest integer (toFixed(2) on an amount in cents)
RoundDiv(a, b) == (2 * a + b) \div (2 * b)

\* Number((gross - gross / 1.19).toFixed(2)), in cents
VatOfGross(gross) == gross - RoundDiv(gross * 100, VAT_DIVISOR)

Correction(field, proposedValue, reason, confidence, memory, applied) ==
    [field |-> field, proposedValue |-> proposedValue, reason |-> reason,
     confidence |-> confidence,
     memoryId |-> {m.memory.id : m \in memory},
     applied |-> applied]

\* An applied-memory record that never carries the applied flag
AppliedRecordUnflagged(field, memoryId, confidence, applied, reason) ==
    [field |-> field, memoryId |-> memoryId, confidence |-> confidence,
     applied |-> FALSE, reason |-> reason]

AppliedRecord(field, memoryId, confidence, applied, reason) ==
    [field |-> field, memoryId |-> memoryId, confidence |-> confidence,
     applied |-> applied, reason |-> reason]

\* memories.find((m) => m.content.field === field)
FindByField(memories, field) ==
    LET I == {i \in 1..Len(memories) : memories[i].content.field = {field}}
    IN IF I = {} THEN {} ELSE {memories[CHOOSE i \in I : \A j \in I : i <= j]}

\* candidate.content.metadata?.proposedValue
MemoryProposedValue(m) ==
    IF m.content.metadata = {} THEN {} ELSE Get(m.content.metadata).proposedValue

ServiceDateReason(candidate) ==
    "Field serviceDate inferred from learned vendor memory for "
    \o Get(OrElse(candidate.content.vendorName, {"unknown vendor"})) \o "."

\* A fill from memory that only ever proposes: the value is never written
MaybeProposeServiceDate(ctx, memories) ==
    IF ctx.normalizedInvoice.serviceDate # {} THEN ctx
    ELSE LET found == FindByField(memories, "serviceDate")
         IN IF found = {} THEN ctx
            ELSE LET candidate == Get(found)
                     confidence == Get(candidate.content.confidence)
                     proposedValue == MemoryProposedValue(candidate)
                     reason == ServiceDateReason(candidate)
                 IN IF confidence < MEDIUM_CONFIDENCE_THRESHOLD \/ proposedValue = {} THEN ctx
                    ELSE [ctx EXCEPT
                            !.proposedCorrections =
                                Append(@, Correction("serviceDate", Get(proposedValue), reason,
                                                     confidence, found, FALSE)),
                            !.appliedMemories =
                                Append(@, AppliedRecord("serviceDate", candidate.memory.id,
                                                        confidence, FALSE, reason)),
                            !.aggregateConfidence = Max(@, confidence)]

\* maybeApplyFieldFromMemory for the field serviceDate, on the running context
MaybeApplyServiceDate(ctx, memories) ==
    IF ctx.normalizedInvoice.serviceDate # {} THEN ctx
    ELSE LET found == FindByField(memories, "serviceDate")
         IN IF found = {} THEN ctx
            ELSE LET candidate == Get(found)
                     confidence == Get(candidate.content.confidence)
                     proposedValue == MemoryProposedValue(candidate)
                     reason == ServiceDateReason(candidate)
                     applied == confidence >= HIGH_CONFIDENCE_THRESHOLD
                 IN IF confidence < MEDIUM_CONFIDENCE_THRESHOLD \/ proposedValue = {} THEN ctx
                    ELSE [ctx EXCEPT
                            !.proposedCorrections =
                                Append(@, Correction("serviceDate", Get(proposedValue), reason,
                                                     confidence, found, applied)),
                            !.appliedMemories =
                                Append(@, AppliedRecord("serviceDate", candidate.memory.id,
                                                        confidence, applied, reason)),
                            !.normalizedInvoice.serviceDate = IF applied THEN proposedValue ELSE @,
                            !.aggregateConfidence = Max(@, confidence)]

DetectVatIncluded(rawText) ==
    LET text == ToLowerCase(rawText)
    IN \/ Includes(text, "mwst. inkl")
       \/ Includes(text, "mwst inkl")
       \/ Includes(text, "inkl. mwst")
       \/ Includes(text, "inkl mwst")
       \/ Includes(text, "prices incl. vat")
       \/ Includes(text, "price includes vat")

VAT_REASON ==
    "VAT inclusion inferred from raw text phrases such as \"MwSt. inkl.\" or \"Prices incl. VAT\"."

\* The VAT heuristic without its confidence bands: it writes the tax amount
\* whenever the raw text says VAT is included
ApplyVatUnbanded(ctx, rawText, vendorMemories) ==
    IF ~DetectVatIncluded(rawText) THEN ctx
    ELSE LET vatMem == FindByField(vendorMemories, "vatIncluded")
             baseConfidence ==
                 Get(OrElse({Get(m.content.confidence) : m \in vatMem}, {DEFAULT_VAT_CONFIDENCE}))
             gross == ctx.normalizedInvoice.totalAmount
             taxAmount == VatOfGross(gross)
         IN [ctx EXCEPT
                !.proposedCorrections =
                    Append(@, Correction("taxAmount", NumVal(taxAmount), VAT_REASON,
                                         baseConfidence, vatMem, TRUE)),
                !.normalizedInvoice.taxAmount = {taxAmount},
                !.normalizedInvoice.grossAmount = {gross},
                !.aggregateConfidence = Max(@, baseConfidence)]

\* apply.ts 362-410
ApplyVat(ctx, rawText, vendorMemories) ==
    IF ~DetectVatIncluded(rawText) THEN ctx
    ELSE LET vatMem == FindByField(vendorMemories, "vatIncluded")
             baseConfidence ==
                 Get(OrElse({Get(m.content.confidence) : m \in vatMem}, {DEFAULT_VAT_CONFIDENCE}))
             gross == ctx.normalizedInvoice.totalAmount
             taxAmount == VatOfGross(gross)
         IN IF baseConfidence >= HIGH_CONFIDENCE_THRESHOLD
            THEN [ctx EXCEPT
                    !.proposedCorrections =
                        Append(@, Correction("taxAmount", NumVal(taxAmount), VAT_REASON,
                                             baseConfidence, vatMem, TRUE)),
                    !.normalizedInvoice.taxAmount = {taxAmount},
                    !.normalizedInvoice.grossAmount = {gross},
                    !.appliedMemories =
                        Append(@, AppliedRecord("taxAmount",
                                                Get(OrElse({m.memory.id : m \in vatMem},
                                                           {"synthetic-vat-rule"})),
                                                baseConfidence, TRUE, VAT_REASON)),
                    !.aggregateConfidence = Max(@, baseConfidence)]
            ELSE IF baseConfidence >= MEDIUM_CONFIDENCE_THRESHOLD
            THEN [ctx EXCEPT
                    !.proposedCorrections =
                        Append(@, Correction("taxAmount", NumVal(taxAmount), VAT_REASON,
                                             baseConfidence, vatMem, FALSE)),
                    !.aggregateConfidence = Max(@, baseConfidence)]
            ELSE ctx

NormalizeCurrencyFromText(rawText) ==
    LET text == ToUpperCase(rawText)
    IN IF Includes(text, " EUR") \/ Includes(text, "€") THEN {"EUR"}
       ELSE IF Includes(text, " USD") \/ Includes(text, "$") THEN {"USD"}
       ELSE IF Includes(text, " CHF") THEN {"CHF"}
       ELSE IF Includes(text, " GBP") \/ Includes(text, "£") THEN {"GBP"}
       ELSE {}

CURRENCY_REASON == "Currency inferred from raw text and vendor-specific memory."

\* currencyMem?.content.metadata?.proposedValue as string: a truthy string
MemoryCurrency(currencyMem) ==
    IF currencyMem = {} THEN {}
    ELSE LET v == MemoryProposedValue(Get(currencyMem))
         IN IF v = {} \/ Get(v).t # "string" \/ Get(v).s = "" THEN {} ELSE {Get(v).s}

\* apply.ts 412-457
ApplyCurrency(ctx, rawText, vendorMemories) ==
    IF ctx.normalizedInvoice.currency # "" THEN ctx
    ELSE LET currencyMem == FindByField(vendorMemories, "currency")
             baseConfidence ==
                 Get(OrElse({Get(m.content.confidence) : m \in currencyMem},
                            {DEFAULT_CURRENCY_CONFIDENCE}))
             candidateCurrency == OrElse(NormalizeCurrencyFromText(rawText),
                                         MemoryCurrency(currencyMem))
         IN IF candidateCurrency = {} THEN ctx
            ELSE IF baseConfidence >= HIGH_CONFIDENCE_THRESHOLD
            THEN [ctx EXCEPT
                    !.proposedCorrections =
                        Append(@, Correction("currency", StrVal(Get(candidateCurrency)),
                                             CURRENCY_REASON, baseConfidence, currencyMem, TRUE)),
                    !.normalizedInvoice.currency = Get(candidateCurrency),
                    !.appliedMemories =
                        IF currencyMem = {} THEN @
                        ELSE Append(@, AppliedRecord("currency", Get(currencyMem).memory.id,
                                                     baseConfidence, TRUE, CURRENCY_REASON)),
                    !.aggregateConfidence = Max(@, baseConfidence)]
            ELSE IF baseConfidence >= MEDIUM_CONFIDENCE_THRESHOLD
            THEN [ctx EXCEPT
                    !.proposedCorrections =
                        Append(@, Correction("currency", StrVal(Get(candidateCurrency)),
                                             CURRENCY_REASON, baseConfidence, currencyMem, FALSE)),
                    !.aggregateConfidence = Max(@, baseConfidence)]
            ELSE ctx


LooksLikeFreight(item) ==
    LET description == ToLowerCase(item.description)
    IN \/ Includes(description, "seefracht")
       \/ Includes(description, "shipping")
       \/ Includes(description, "fracht")
       \/ Includes(description, "freight")

FREIGHT_REASON ==
    "Freight-related description mapped to freight SKU based on learned vendor memory."

LineItemSkuField(item) == "lineItem:" \o item.id \o ":sku"

\* apply.ts 459-507, the body of the loop for the line item at index i
ApplyFreightItem(ctx, i, vendorMemories) ==
    LET item == ctx.normalizedInvoice.lineItems[i]
        freightMem == FindByField(vendorMemories, "freightSku")
        baseConfidence ==
            Get(OrElse({Get(m.content.confidence) : m \in freightMem},
                       {DEFAULT_FREIGHT_CONFIDENCE}))
        proposedSku ==
            Get(OrElse(IF freightMem = {} THEN {} ELSE MemoryProposedValue(Get(freightMem)),
                       {StrVal("FREIGHT")}))
    IN IF ~LooksLikeFreight(item) THEN ctx
       ELSE IF baseConfidence >= HIGH_CONFIDENCE_THRESHOLD
       THEN [ctx EXCEPT
               !.proposedCorrections =
                   Append(@, Correction(LineItemSkuField(item), proposedSku, FREIGHT_REASON,
                                        baseConfidence, freightMem, TRUE)),
               !.normalizedInvoice.lineItems[i].sku = {proposedSku},
               !.appliedMemories =
                   Append(@, AppliedRecord(LineItemSkuField(item),
                                           Get(OrElse({m.memory.id : m \in freightMem},
                                                      {"synthetic-freight-rule"})),
                                           baseConfidence, TRUE, FREIGHT_REASON)),
               !.aggregateConfidence = Max(@, baseConfidence)]
       ELSE IF baseConfidence >= MEDIUM_CONFIDENCE_THRESHOLD
       THEN [ctx EXCEPT
               !.proposedCorrections =
                   Append(@, Correction(LineItemSkuField(item), proposedSku, FREIGHT_REASON,
                                        baseConfidence, freightMem, FALSE)),
               !.aggregateConfidence = Max(@, baseConfidence)]
       ELSE ctx

RECURSIVE ApplyFreight(_, _, _)
\* for (const item of normalizedInvoice.lineItems)
ApplyFreight(ctx, i, vendorMemories) ==
    IF i > Len(ctx.normalizedInvoice.lineItems) THEN ctx
    ELSE ApplyFreight(ApplyFreightItem(ctx, i, vendorMemories), i + 1, vendorMemories)

Digits == {"0", "1", "2", "3", "4", "5", "6", "7", "8", "9"}

IsDigitAt(s, i) == i >= 1 /\ i <= Len(s) /\ CharAt(s, i) \in Digits

IsPercentAt(s, i) == i >= 1 /\ i <= Len(s) /\ CharAt(s, i) = "%"

\* window.match(/(\d{1,2})%/): the capture of the leftmost match, {} when none
PercentMatch(window) ==
    LET Starts == {i \in 1..Len(window) :
                      /\ IsDigitAt(window, i)
                      /\ \/ (IsDigitAt(window, i + 1) /\ IsPercentAt(window, i + 2))
                         \/ IsPercentAt(window, i + 1)}
    IN IF Starts = {} THEN {}
       ELSE LET i == CHOOSE k \in Starts : \A j \in Starts : k <= j
            IN IF IsDigitAt(window, i + 1) /\ IsPercentAt(window, i + 2)
               THEN {SubSeq(window, i, i + 1)}
               ELSE {SubSeq(window, i, i)}

\* text.indexOf(needle) + 1: 0 when the needle does not occur
IndexOf(text, needle) ==
    LET I == {i \in 1..(Len(text) - Len(needle) + 1) :
                 SubSeq(text, i, i + Len(needle) - 1) = needle}
    IN IF I = {} THEN 0 ELSE CHOOSE k \in I : \A j \in I : k <= j

DetectSkontoTerms(rawText) ==
    LET text == ToLowerCase(rawText)
        skontoIndex == IndexOf(text, "skonto")
        window == SubSeq(text, Max(1, skontoIndex - SKONTO_WINDOW_BEFORE),
                         Min(Len(text), skontoIndex + SKONTO_WINDOW_AFTER - 1))
        percentMatch == PercentMatch(window)
    IN IF skontoIndex = 0 THEN {}
       ELSE IF percentMatch # {} THEN {Get(percentMatch) \o "% skonto detected"}
       ELSE {"Skonto terms detected"}

SKONTO_REASON == "Skonto (cash discount) terms detected in raw text."

\* apply.ts 509-546
ApplySkonto(ctx, rawText, vendorMemories) ==
    LET skonto == DetectSkontoTerms(rawText)
        skontoMem == FindByField(vendorMemories, "skonto")
        baseConfidence ==
            Get(OrElse({Get(m.content.confidence) : m \in skontoMem},
                       {DEFAULT_SKONTO_CONFIDENCE}))
    IN IF skonto = {} THEN ctx
       ELSE IF baseConfidence >= HIGH_CONFIDENCE_THRESHOLD
       THEN [ctx EXCEPT
               !.proposedCorrections =
                   Append(@, Correction("paymentTermsNormalized", StrVal(Get(skonto)),
                                        SKONTO_REASON, baseConfidence, skontoMem, TRUE)),
               !.normalizedInvoice.paymentTermsNormalized = skonto,
               !.appliedMemories =
                   Append(@, AppliedRecord("paymentTermsNormalized",
                                           Get(OrElse({m.memory.id : m \in skontoMem},
                                                      {"synthetic-skonto-rule"})),
                                           baseConfidence, TRUE, SKONTO_REASON)),
               !.aggregateConfidence = Max(@, baseConfidence)]
       ELSE IF baseConfidence >= MEDIUM_CONFIDENCE_THRESHOLD
       THEN [ctx EXCEPT
               !.proposedCorrections =
                   Append(@, Correction("paymentTermsNormalized", StrVal(Get(skonto)),
                                        SKONTO_REASON, baseConfidence, skontoMem, FALSE)),
               !.aggregateConfidence = Max(@, baseConfidence)]
       ELSE ctx

\* An apply that looks for its memories among everything recall returned,
\* whatever the category
ApplyAnyMemoryToContext(invoice, rawText, recall) ==
    LET ctx0 == [normalizedInvoice |-> invoice, proposedCorrections |-> <<>>,
                 appliedMemories |-> <<>>, aggregateConfidence |-> 0]
        ctx1 == MaybeApplyServiceDate(ctx0, recall.allMemories)
        ctx2 == ApplyVat(ctx1, rawText, recall.allMemories)
        ctx3 == ApplyCurrency(ctx2, rawText, recall.allMemories)
        ctx4 == ApplyFreight(ctx3, 1, recall.allMemories)
        ctx5 == ApplySkonto(ctx4, rawText, recall.allMemories)
    IN [invoice |-> [invoice EXCEPT !.lineItems = ctx5.normalizedInvoice.lineItems],
        recall |-> recall,
        normalizedInvoice |-> ctx5.normalizedInvoice,
        proposedCorrections |-> ctx5.proposedCorrections,
        appliedMemories |-> ctx5.appliedMemories,
        aggregateConfidence |-> ctx5.aggregateConfidence]

\* applyMemoriesToContext(input).  invoice is the caller's object after the
\* call: the shallow copy shares its lineItems array, and its items, with
\* normalizedInvoice.
ApplyMemoriesToContext(invoice, rawText, recall) ==
    LET ctx0 == [normalizedInvoice |-> invoice, proposedCorrections |-> <<>>,
                 appliedMemories |-> <<>>, aggregateConfidence |-> 0]
        vendorServiceMemories ==
            SelectSeq(recall.vendorMemories, LAMBDA m : m.content.field = {"serviceDate"})
        ctx1 == MaybeApplyServiceDate(ctx0, vendorServiceMemories)
        ctx2 == ApplyVat(ctx1, rawText, recall.vendorMemories)
        ctx3 == ApplyCurrency(ctx2, rawText, recall.vendorMemories)
        ctx4 == ApplyFreight(ctx3, 1, recall.vendorMemories)
        ctx5 == ApplySkonto(ctx4, rawText, recall.vendorMemories)
    IN [invoice |-> [invoice EXCEPT !.lineItems = ctx5.normalizedInvoice.lineItems],
        recall |-> recall,
        normalizedInvoice |-> ctx5.normalizedInvoice,
        proposedCorrections |-> ctx5.proposedCorrections,
        appliedMemories |-> ctx5.appliedMemories,
        aggregateConfidence |-> ctx5.aggregateConfidence]

----------------------------------------------------------------------------
(* Decide (engine/decide.ts) *)

DUPLICATE_TEXT ==
    "Potential duplicate detected based on vendor, invoice number, and invoice date proximity."

AUTO_TEXT ==
    "High-confidence learned corrections applied without conflicting suggestions; auto-correction is allowed."

MEDIUM_TEXT ==
    "Medium-confidence suggestions present; human review recommended before applying corrections."

NONE_TEXT == "No sufficiently confident learned memory found; escalate to human review."

RECURSIVE JoinWithSpace(_, _)
\* parts.join(' ')
JoinWithSpace(parts, i) ==
    IF i > Len(parts) THEN ""
    ELSE IF i = Len(parts) THEN parts[i]
    ELSE parts[i] \o " " \o JoinWithSpace(parts, i + 1)

\* A decision that leaves the duplicate flag out of its rules
DecideWithoutDuplicateRule(context) ==
    LET highConfidenceApplied ==
            \E i \in 1..Len(context.appliedMemories) :
                /\ context.appliedMemories[i].applied
                /\ context.appliedMemories[i].confidence >= HIGH_CONFIDENCE_THRESHOLD
        mediumConfidenceSuggestions ==
            SelectSeq(context.proposedCorrections,
                      LAMBDA c : /\ ~c.applied
                                 /\ c.confidence >= MEDIUM_CONFIDENCE_THRESHOLD
                                 /\ c.confidence < HIGH_CONFIDENCE_THRESHOLD)
        rule2 == highConfidenceApplied /\ Len(mediumConfidenceSuggestions) = 0
        rule3 == Len(mediumConfidenceSuggestions) > 0
        rule4 == ~highConfidenceApplied /\ Len(mediumConfidenceSuggestions) = 0
    IN [requiresHumanReview |-> ~rule2,
        confidenceScore |-> Min(Max(context.aggregateConfidence, 0), SCORE_MAX),
        reasoning |-> JoinWithSpace((IF rule2 THEN <<AUTO_TEXT>> ELSE <<>>)
                                    \o (IF rule3 THEN <<MEDIUM_TEXT>> ELSE <<>>)
                                    \o (IF rule4 THEN <<NONE_TEXT>> ELSE <<>>), 1)]

\* A decision in which one high-confidence applied correction is enough to
\* waive the review, whatever else is only suggested
DecideOnHighConfidenceAlone(context) ==
    LET hasDuplicate == context.recall.duplicateDetected
        highConfidenceApplied ==
            \E i \in 1..Len(context.appliedMemories) :
                /\ context.appliedMemories[i].applied
                /\ context.appliedMemories[i].confidence >= HIGH_CONFIDENCE_THRESHOLD
        rule2 == ~hasDuplicate /\ highConfidenceApplied
    IN [requiresHumanReview |-> ~rule2,
        confidenceScore |-> Min(Max(context.aggregateConfidence, 0), SCORE_MAX),
        reasoning |-> JoinWithSpace((IF hasDuplicate THEN <<DUPLICATE_TEXT>> ELSE <<>>)
                                    \o (IF rule2 THEN <<AUTO_TEXT>> ELSE <<>>), 1)]

\* A decision that passes the aggregate confidence on as its score, without
\* bringing it into [0, 1]
DecideUnclamped(context) ==
    LET hasDuplicate == context.recall.duplicateDetected
        highConfidenceApplied ==
            \E i \in 1..Len(context.appliedMemories) :
                /\ context.appliedMemories[i].applied
                /\ context.appliedMemories[i].confidence >= HIGH_CONFIDENCE_THRESHOLD
        mediumConfidenceSuggestions ==
            SelectSeq(context.proposedCorrections,
                      LAMBDA c : /\ ~c.applied
                                 /\ c.confidence >= MEDIUM_CONFIDENCE_THRESHOLD
                                 /\ c.confidence < HIGH_CONFIDENCE_THRESHOLD)
        rule1 == hasDuplicate
        rule2 == ~hasDuplicate /\ highConfidenceApplied /\ Len(mediumConfidenceSuggestions) = 0
        rule3 == Len(mediumConfidenceSuggestions) > 0
        rule4 == ~highConfidenceApplied /\ Len(mediumConfidenceSuggestions) = 0 /\ ~hasDuplicate
        review0 == TRUE
        review1 == IF rule1 THEN TRUE ELSE review0
        review2 == IF rule2 THEN FALSE ELSE review1
        review3 == IF rule3 THEN TRUE ELSE review2
        review4 == IF rule4 THEN TRUE ELSE review3
        reasoningParts ==
            (IF rule1 THEN <<DUPLICATE_TEXT>> ELSE <<>>)
            \o (IF rule2 THEN <<AUTO_TEXT>> ELSE <<>>)
            \o (IF rule3 THEN <<MEDIUM_TEXT>> ELSE <<>>)
            \o (IF rule4 THEN <<NONE_TEXT>> ELSE <<>>)
    IN [requiresHumanReview |-> review4,
        confidenceScore |-> context.aggregateConfidence,
        reasoning |-> JoinWithSpace(reasoningParts, 1)]

\* A decision that gives its reasons only when it requires a review
DecideSilentWhenAutomatic(context) ==
    LET hasDuplicate == context.recall.duplicateDetected
        highConfidenceApplied ==
            \E i \in 1..Len(context.appliedMemories) :
                /\ context.appliedMemories[i].applied
                /\ context.appliedMemories[i].confidence >= HIGH_CONFIDENCE_THRESHOLD
        mediumConfidenceSuggestions ==
            SelectSeq(context.proposedCorrections,
                      LAMBDA c : /\ ~c.applied
                                 /\ c.confidence >= MEDIUM_CONFIDENCE_THRESHOLD
                                 /\ c.confidence < HIGH_CONFIDENCE_THRESHOLD)
        rule1 == hasDuplicate
        rule2 == ~hasDuplicate /\ highConfidenceApplied /\ Len(mediumConfidenceSuggestions) = 0
        rule3 == Len(mediumConfidenceSuggestions) > 0
        rule4 == ~highConfidenceApplied /\ Len(mediumConfidenceSuggestions) = 0 /\ ~hasDuplicate
        reasoningParts ==
            (IF rule1 THEN <<DUPLICATE_TEXT>> ELSE <<>>)
            \o (IF rule3 THEN <<MEDIUM_TEXT>> ELSE <<>>)
            \o (IF rule4 THEN <<NONE_TEXT>> ELSE <<>>)
    IN [requiresHumanReview |-> ~rule2,
        confidenceScore |-> Min(Max(context.aggregateConfidence, 0), SCORE_MAX),
        reasoning |-> JoinWithSpace(reasoningParts, 1)]

\* decide.ts: the four rules, each overriding the flag the earlier ones set
DecideNextAction(context) ==
    LET hasDuplicate == context.recall.duplicateDetected
        highConfidenceApplied ==
            \E i \in 1..Len(context.appliedMemories) :
                /\ context.appliedMemories[i].applied
                /\ context.appliedMemories[i].confidence >= HIGH_CONFIDENCE_THRESHOLD
        mediumConfidenceSuggestions ==
            SelectSeq(context.proposedCorrections,
                      LAMBDA c : /\ ~c.applied
                                 /\ c.confidence >= MEDIUM_CONFIDENCE_THRESHOLD
                                 /\ c.confidence < HIGH_CONFIDENCE_THRESHOLD)
        rule1 == hasDuplicate
        rule2 == ~hasDuplicate /\ highConfidenceApplied /\ Len(mediumConfidenceSuggestions) = 0
        rule3 == Len(mediumConfidenceSuggestions) > 0
        rule4 == ~highConfidenceApplied /\ Len(mediumConfidenceSuggestions) = 0 /\ ~hasDuplicate
        review0 == TRUE
        review1 == IF rule1 THEN TRUE ELSE review0
        review2 == IF rule2 THEN FALSE ELSE review1
        review3 == IF rule3 THEN TRUE ELSE review2
        review4 == IF rule4 THEN TRUE ELSE review3
        reasoningParts ==
            (IF rule1 THEN <<DUPLICATE_TEXT>> ELSE <<>>)
            \o (IF rule2 THEN <<AUTO_TEXT>> ELSE <<>>)
            \o (IF rule3 THEN <<MEDIUM_TEXT>> ELSE <<>>)
            \o (IF rule4 THEN <<NONE_TEXT>> ELSE <<>>)
    IN [requiresHumanReview |-> review4,
        confidenceScore |-> Min(Max(context.aggregateConfidence, 0), SCORE_MAX),
        reasoning |-> JoinWithSpace(reasoningParts, 1)]

----------------------------------------------------------------------------
(* The orchestrator (engine/index.ts) *)

NO_FEEDBACK_REASON == "No human feedback supplied; no learning performed for this invoice."

\* index.ts 89-107: the signal built for one correction; uuid is the id
\* uuidv4() would give when the correction carries no memoryId
SignalDetails(correction, approved, invoice, recallResult, uuid) ==
    [memoryId |-> OrElse(correction.memoryId, {uuid}),
     approved |-> {approved},
     field |-> {correction.field},
     value |-> {correction.proposedValue},
     vendorName |-> {invoice.vendorName},
     invoiceNumber |-> {invoice.invoiceNumber},
     invoiceDate |-> {ToISOString(invoice.issuedAt)},
     resolutionStatus |-> {IF approved THEN "approved" ELSE "rejected"},
     isDuplicate |-> {recallResult.duplicateDetected}]

\* feedbackScore: approved ? 1 : -1
SignalFeedbackScore(approved) == IF approved THEN {1} ELSE {0 - 1}

\* A loop body that reports as previousConfidence the confidence the
\* correction was proposed with, not the one read from the store
LearnCorrectionFromProposal(acc, correction, approved, invoice, recallResult, now) ==
    LET drawn == IF correction.memoryId = {} THEN acc.uuids + 1 ELSE acc.uuids
        details == SignalDetails(correction, approved, invoice, recallResult, Uuid(drawn))
        beforeMemory ==
            IF correction.memoryId # {} THEN GetMemoryById(acc.store, Get(correction.memoryId))
            ELSE {}
        before == IF beforeMemory = {} THEN EmptyContent
                  ELSE ParseOrEmpty(Get(beforeMemory).content)
        previousConfidence == correction.confidence
        previousUsage == Get(OrElse(before.usageCount, {0}))
        learned == LearnFromSignal(acc.store, drawn, now, details, SignalFeedbackScore(approved))
        after == IF learned.memory = {} THEN EmptyContent
                 ELSE ParseOrEmpty(Get(learned.memory).content)
        update ==
            [memoryId |-> Get(learned.memory).id,
             previousConfidence |-> previousConfidence,
             newConfidence |-> Get(OrElse(after.confidence, {previousConfidence})),
             usageCount |-> Get(OrElse(after.usageCount, {previousUsage + 1})),
             action |-> IF approved THEN "reinforce" ELSE "decay"]
    IN [store |-> learned.store,
        uuids |-> learned.uuids,
        memoryUpdates |-> IF learned.memory = {} THEN acc.memoryUpdates
                          ELSE Append(acc.memoryUpdates, update)]

\* A loop body that reports the action create when no memory existed
LearnCorrectionReportingCreate(acc, correction, approved, invoice, recallResult, now) ==
    LET drawn == IF correction.memoryId = {} THEN acc.uuids + 1 ELSE acc.uuids
        details == SignalDetails(correction, approved, invoice, recallResult, Uuid(drawn))
        beforeMemory ==
            IF correction.memoryId # {} THEN GetMemoryById(acc.store, Get(correction.memoryId))
            ELSE {}
        before == IF beforeMemory = {} THEN EmptyContent
                  ELSE ParseOrEmpty(Get(beforeMemory).content)
        previousConfidence == Get(OrElse(before.confidence, {DEFAULT_CONFIDENCE}))
        previousUsage == Get(OrElse(before.usageCount, {0}))
        learned == LearnFromSignal(acc.store, drawn, now, details, SignalFeedbackScore(approved))
        after == IF learned.memory = {} THEN EmptyContent
                 ELSE ParseOrEmpty(Get(learned.memory).content)
        update ==
            [memoryId |-> Get(learned.memory).id,
             previousConfidence |-> previousConfidence,
             newConfidence |-> Get(OrElse(after.confidence, {previousConfidence})),
             usageCount |-> Get(OrElse(after.usageCount, {previousUsage + 1})),
             action |-> IF beforeMemory = {} THEN "create" ELSE IF approved THEN "reinforce" ELSE "decay"]
    IN [store |-> learned.store,
        uuids |-> learned.uuids,
        memoryUpdates |-> IF learned.memory = {} THEN acc.memoryUpdates
                          ELSE Append(acc.memoryUpdates, update)]

\* index.ts 109-151: one pass of the loop body for a correction that the
\* feedback names; acc carries the store, the uuids drawn and memoryUpdates
LearnCorrection(acc, correction, approved, invoice, recallResult, now) ==
    LET drawn == IF correction.memoryId = {} THEN acc.uuids + 1 ELSE acc.uuids
        details == SignalDetails(correction, approved, invoice, recallResult, Uuid(drawn))
        beforeMemory ==
            IF correction.memoryId # {} THEN GetMemoryById(acc.store, Get(correction.memoryId))
            ELSE {}
        before == IF beforeMemory = {} THEN EmptyContent
                  ELSE ParseOrEmpty(Get(beforeMemory).content)
        previousConfidence == Get(OrElse(before.confidence, {DEFAULT_CONFIDENCE}))
        previousUsage == Get(OrElse(before.usageCount, {0}))
        learned == LearnFromSignal(acc.store, drawn, now, details, SignalFeedbackScore(approved))
        after == IF learned.memory = {} THEN EmptyContent
                 ELSE ParseOrEmpty(Get(learned.memory).content)
        update ==
            [memoryId |-> Get(learned.memory).id,
             previousConfidence |-> previousConfidence,
             newConfidence |-> Get(OrElse(after.confidence, {previousConfidence})),
             usageCount |-> Get(OrElse(after.usageCount, {previousUsage + 1})),
             action |-> IF approved THEN "reinforce" ELSE "decay"]
    IN [store |-> learned.store,
        uuids |-> learned.uuids,
        memoryUpdates |-> IF learned.memory = {} THEN acc.memoryUpdates
                          ELSE Append(acc.memoryUpdates, update)]

RECURSIVE LearnFromFeedbackUnfiltered(_, _, _, _, _, _, _)
\* A loop that learns from every proposed correction: one the feedback does
\* not name counts as rejected
LearnFromFeedbackUnfiltered(acc, corrections, i, humanFeedback, invoice, recallResult, now) ==
    IF i > Len(corrections) THEN acc
    ELSE LET correction == corrections[i]
             approved == correction.field \in humanFeedback.approvedCorrections
             next == LearnCorrection(acc, correction, approved, invoice, recallResult, now)
         IN LearnFromFeedbackUnfiltered(next, corrections, i + 1, humanFeedback, invoice,
                                        recallResult, now)

RECURSIVE LearnFromFeedbackOncePerMemory(_, _, _, _, _, _, _)
\* A loop that learns at most once from each memory in a run: a correction
\* backed by a memory the run has already updated is skipped
LearnFromFeedbackOncePerMemory(acc, corrections, i, humanFeedback, invoice, recallResult, now) ==
    IF i > Len(corrections) THEN acc
    ELSE LET correction == corrections[i]
             approved == correction.field \in humanFeedback.approvedCorrections
             rejected == correction.field \in humanFeedback.rejectedCorrections
             seen == \E j \in DOMAIN acc.memoryUpdates :
                         correction.memoryId = {acc.memoryUpdates[j].memoryId}
             next == IF (~approved /\ ~rejected) \/ seen THEN acc
                     ELSE LearnCorrection(acc, correction, approved, invoice, recallResult, now)
         IN LearnFromFeedbackOncePerMemory(next, corrections, i + 1, humanFeedback, invoice,
                                           recallResult, now)

RECURSIVE LearnFromFeedback(_, _, _, _, _, _, _)
\* for (const correction of applyResult.proposedCorrections)
LearnFromFeedback(acc, corrections, i, humanFeedback, invoice, recallResult, now) ==
    IF i > Len(corrections) THEN acc
    ELSE LET correction == corrections[i]
             approved == correction.field \in humanFeedback.approvedCorrections
             rejected == correction.field \in humanFeedback.rejectedCorrections
             next == IF ~approved /\ ~rejected THEN acc
                     ELSE LearnCorrection(acc, correction, approved, invoice, recallResult, now)
         IN LearnFromFeedback(next, corrections, i + 1, humanFeedback, invoice, recallResult, now)

\* index.ts 36-79: the entries pushed after recall, apply and decide
StageEntries(recallResult, applyResult, decision) ==
    << [step |-> "recall",
        details |-> [duplicateDetected |-> recallResult.duplicateDetected,
                     duplicateScore |-> recallResult.duplicateScore,
                     vendorMemories |-> Len(recallResult.vendorMemories),
                     correctionMemories |-> Len(recallResult.correctionMemories),
                     resolutionMemories |-> Len(recallResult.resolutionMemories)]],
       [step |-> "apply",
        details |-> [appliedMemories |->
                         [i \in DOMAIN applyResult.appliedMemories |->
                             [field |-> applyResult.appliedMemories[i].field,
                              memoryId |-> applyResult.appliedMemories[i].memoryId,
                              confidence |-> applyResult.appliedMemories[i].confidence,
                              applied |-> applyResult.appliedMemories[i].applied]],
                     proposedCorrections |-> applyResult.proposedCorrections]],
       [step |-> "decide",
        details |-> [requiresHumanReview |-> decision.requiresHumanReview,
                     confidenceScore |-> decision.confidenceScore,
                     reasoning |-> decision.reasoning,
                     duplicateDetected |-> recallResult.duplicateDetected]] >>

\* An audit trail that records the learn stage only when something was
\* learned
AuditTrailOfWorkDone(humanFeedback, recallResult, applyResult, decision, updates) ==
    StageEntries(recallResult, applyResult, decision)
    \o (IF updates = <<>> THEN <<>>
        ELSE <<[step |-> "learn", details |-> [updates |-> updates, reason |-> {}]]>>)

\* An audit trail whose learn entry never says why nothing was learned
AuditTrailSilent(humanFeedback, recallResult, applyResult, decision, updates) ==
    StageEntries(recallResult, applyResult, decision)
    \o <<[step |-> "learn", details |-> [updates |-> updates, reason |-> {}]]>>

\* index.ts 26-170: the audit trail of a run; the learn entry is pushed in
\* either branch of if (humanFeedback), with a reason when there is none
AuditTrail(humanFeedback, recallResult, applyResult, decision, updates) ==
    StageEntries(recallResult, applyResult, decision)
    \o <<[step |-> "learn",
          details |-> [updates |-> updates,
                       reason |-> IF humanFeedback = {} THEN {NO_FEEDBACK_REASON} ELSE {}]]>>

\* index.ts 81-183: learning from the feedback, and the output contract
FinishProcess(st, uuids, now, humanFeedback, recallResult, applyResult, decision) ==
    LET learned ==
            IF humanFeedback = {}
            THEN [store |-> st, uuids |-> uuids, memoryUpdates |-> <<>>]
            ELSE LearnFromFeedback([store |-> st, uuids |-> uuids, memoryUpdates |-> <<>>],
                                   applyResult.proposedCorrections, 1, Get(humanFeedback),
                                   applyResult.invoice, recallResult, now)
    IN Only({[store |-> l.store,
              uuids |-> l.uuids,
              invoice |-> applyResult.invoice,
              recall |-> recallResult,
              decision |-> decision,
              output |->
                  [normalizedInvoice |-> applyResult.normalizedInvoice,
                   proposedCorrections |-> applyResult.proposedCorrections,
                   requiresHumanReview |->
                       decision.requiresHumanReview \/ recallResult.duplicateDetected,
                   reasoning |-> decision.reasoning,
                   confidenceScore |-> decision.confidenceScore,
                   memoryUpdates |-> l.memoryUpdates,
                   auditTrail |-> AuditTrail(humanFeedback, recallResult, applyResult,
                                             decision, l.memoryUpdates)]] : l \in {learned}})

\* index.ts 28-33: the query the orchestrator recalls with
RecallQueryOf(invoice) ==
    [vendorName |-> invoice.vendorName,
     invoiceNumber |-> invoice.invoiceNumber,
     invoiceDate |-> invoice.issuedAt,
     limit |-> {}]

----------------------------------------------------------------------------
(* The engine as a state machine: a persistent store, and calls to        *)
(* processInvoiceWithMemory and learnFromSignal made one after another.   *)

MaxCalls == 3

\* Confidences a stored vendor memory starts with
SeedConfidences == {5, 75, 90}

\* A vendor memory as the demo runner stores one (demoRunner.ts 249-272)
SeedMemory(field, confidence) ==
    Memory("seed-1", "long_term",
           JSONStringify([EmptyContent EXCEPT
                !.category = {"vendor"},
                !.vendorName = {"Acme"},
                !.invoiceNumber = {"INV-0"},
                !.invoiceDate = {ToISOString(1)},
                !.field = {field},
                !.confidence = {confidence},
                !.usageCount = {1},
                !.metadata = {[NoMetadata EXCEPT !.proposedValue = {StrVal(ToISOString(3))}]}]),
           0, 0, {"demo:supplier:serviceDate"})

\* A vendor memory another supplier's invoices have left: learned for
\* Globex, on an invoice that carries the number INV-1
OtherVendorMemory ==
    [SeedMemory("vatIncluded", 90) EXCEPT
        !.id = "seed-2",
        !.content.vendorName = {"Globex"},
        !.content.invoiceNumber = {"INV-1"},
        !.content.metadata = {[NoMetadata EXCEPT !.field = {"taxAmount"},
                                                 !.value = {NumVal(1900)}]},
        !.source = {"learn"}]

\* What data/memory.db holds when the engine starts
InitialStores ==
    {<<>>, <<OtherVendorMemory>>}
    \cup {<<SeedMemory(f, c)>> : f \in {"vatIncluded", "serviceDate"}, c \in SeedConfidences}

BaseInvoice ==
    [id |-> "I1", vendorName |-> "Acme", invoiceNumber |-> "INV-1", issuedAt |-> 10,
     currency |-> "EUR", totalAmount |-> 11900,
     serviceDate |-> {}, taxAmount |-> {}, grossAmount |-> {}, paymentTermsNormalized |-> {},
     lineItems |-> <<>>]

FreightItem == [id |-> "1", description |-> "Seefracht", sku |-> {}]

Invoices == {BaseInvoice, [BaseInvoice EXCEPT !.lineItems = <<FreightItem>>]}

Feedbacks ==
    {{},
     {[approvedCorrections |-> {"taxAmount", "lineItem:1:sku", "serviceDate"},
       rejectedCorrections |-> {}]},
     {[approvedCorrections |-> {},
       rejectedCorrections |-> {"taxAmount", "lineItem:1:sku", "serviceDate"}]}}

\* The feedbackScore values callers give with a signal: omitted, the weight
\* 1, and the -1 the orchestrator passes with a rejection (index.ts 106)
FeedbackScores(approved) ==
    IF approved = {FALSE} THEN {{}, {1}, {0 - 1}}
    ELSE IF approved = {TRUE} THEN {{}, {1}}
    ELSE {{}}

DirectSignal ==
    [memoryId |-> {"seed-1"}, approved |-> {TRUE}, field |-> {"currency"},
     value |-> {StrVal("v")}, vendorName |-> {"Acme"}, invoiceNumber |-> {"INV-1"},
     invoiceDate |-> {ToISOString(10)}, resolutionStatus |-> {}, isDuplicate |-> {}]

\* Signals given to learnFromSignal directly: approving and rejecting ones
\* for the id seed-1, one without memoryId and one without approved
SignalDetailsSet ==
    {DirectSignal,
     [DirectSignal EXCEPT !.approved = {FALSE}],
     [DirectSignal EXCEPT !.memoryId = {}],
     [DirectSignal EXCEPT !.approved = {}]}

Init ==
    /\ store \in InitialStores
    /\ nextUuid = 0
    /\ clock = 0
    /\ call = [op |-> "none"]
    /\ ret = [op |-> "none"]

\* processInvoiceWithMemory(repository, invoice, rawText, humanFeedback), for
\* any raw text and any feedback ({} when the argument is omitted): recall,
\* apply, decide, then learning from the feedback and the output contract
Process(invoice) ==
    /\ clock < MaxCalls
    /\ \E recallResult \in {RecallMemories(store, RecallQueryOf(invoice))} :
       \E rawText \in RawTexts :
       \E applyResult \in {ApplyMemoriesToContext(invoice, rawText, recallResult)} :
       \E decision \in {DecideNextAction(applyResult)} :
       \E humanFeedback \in Feedbacks :
       \E r \in {FinishProcess(store, nextUuid, clock + 1, humanFeedback, recallResult,
                               applyResult, decision)} :
          /\ store' = r.store
          /\ nextUuid' = r.uuids
          /\ ret' = [op |-> "process", output |-> r.output, invoice |-> r.invoice,
                     recall |-> r.recall, decision |-> r.decision]
          /\ call' = [op |-> "process", invoice |-> invoice, rawText |-> rawText,
                      humanFeedback |-> humanFeedback]
    /\ clock' = clock + 1

\* learnFromSignal(repository, signal), called directly
Learn(details, feedbackScore) ==
    /\ clock < MaxCalls
    /\ \E r \in {LearnFromSignal(store, nextUuid, clock + 1, details, feedbackScore)} :
          /\ store' = r.store
          /\ nextUuid' = r.uuids
          /\ ret' = [op |-> "learn", memory |-> r.memory]
    /\ clock' = clock + 1
    /\ call' = [op |-> "learn", details |-> details, feedbackScore |-> feedbackScore]

Next ==
    \/ \E invoice \in Invoices : Process(invoice)
    \/ \E details \in SignalDetailsSet :
          \E feedbackScore \in FeedbackScores(details.approved) :
              Learn(details, feedbackScore)

Spec == Init /\ [][Next]_vars

----------------------------------------------------------------------------
(* Recall on its own: recallMemories against stores of any content *)

MaxStored == 2

RecallBase ==
    [EmptyContent EXCEPT
        !.category = {"resolution"}, !.vendorName = {"ACME"}, !.invoiceNumber = {"INV-1"},
        !.invoiceDate = {ToISOString(10)}, !.confidence = {80}, !.usageCount = {1}]

\* Contents a store may hold: resolution records that match the query
\* Acme / INV-1 in every combination of vendor, number and date; records
\* without a vendor or a date, or with a date that is no date; records
\* whose confidence is outside [0, 1]; other categories; JSON that is no
\* learned memory; text that is not JSON
RecallContents ==
    {[RecallBase EXCEPT !.vendorName = v, !.invoiceNumber = n, !.invoiceDate = d] :
        v \in {{"ACME"}, {"Globex"}},
        n \in {{"INV-1"}, {"INV-2"}},
        d \in {{ToISOString(10)}, {ToISOString(13)}}}
    \cup {[RecallBase EXCEPT !.vendorName = {}],
          [RecallBase EXCEPT !.invoiceDate = {""}],
          [RecallBase EXCEPT !.confidence = {0 - 20}],
          [RecallBase EXCEPT !.confidence = {90}, !.invoiceDate = {ToISOString(8)}],
          [RecallBase EXCEPT !.invoiceDate = {}],
          [RecallBase EXCEPT !.invoiceDate = {"soon"}],
          [RecallBase EXCEPT !.category = {"vendor"}, !.confidence = {120}],
          [RecallBase EXCEPT !.category = {"correction"}, !.confidence = {95}],
          [RecallBase EXCEPT !.confidence = {}],
          [RecallBase EXCEPT !.usageCount = {}],
          [RecallBase EXCEPT !.category = {}],
          TextContent("note for acme, inv-1")}

StoredIds == <<"m1", "m2", "m3", "m4">>

\* Stores of up to MaxStored memories with the ids m1, m2, ...
RecallStores ==
    UNION {{[i \in 1..n |-> Memory(StoredIds[i], "long_term", cs[i], 0, 0, {})] :
               cs \in [1..n -> RecallContents]} : n \in 0..MaxStored}

RecallQueries ==
    {[vendorName |-> "Acme", invoiceNumber |-> "INV-1", invoiceDate |-> d, limit |-> l] :
        d \in {10, 12}, l \in {{}, {1}}}

InitRecall ==
    /\ store \in RecallStores
    /\ nextUuid = 0
    /\ clock = 0
    /\ call = [op |-> "none"]
    /\ ret = [op |-> "none"]

\* A recall that counts the use of every memory it returns, writing the
\* count back to the store
RecallCountingUse(query) ==
    /\ ret' = [op |-> "recall", summary |-> RecallMemories(store, query)]
    /\ call' = [op |-> "recall", query |-> query]
    /\ store' = [i \in DOMAIN store |->
                    IF \E j \in DOMAIN ret'.summary.allMemories :
                           ret'.summary.allMemories[j].memory.id = store[i].id
                    THEN [store[i] EXCEPT !.content.usageCount = {n + 1 : n \in @}]
                    ELSE store[i]]
    /\ UNCHANGED <<nextUuid, clock>>

\* recallMemories(repository, query): reads the store, writes nothing
Recall(query) ==
    /\ ret' = [op |-> "recall", summary |-> RecallMemories(store, query)]
    /\ call' = [op |-> "recall", query |-> query]
    /\ UNCHANGED <<store, nextUuid, clock>>

NextRecall == \E query \in RecallQueries : Recall(query)

SpecRecall == InitRecall /\ [][NextRecall]_vars

----------------------------------------------------------------------------
(* Apply and decide on their own: the stages of processInvoiceWithMemory   *)
(* that follow recall, run on any recall result, without feedback          *)

MaxRecalled == 2

RecalledConfidences == {65, 70, 80}

\* A vendor memory as recall returns it for the invoice Acme / INV-1 of day
\* 10: the learned field, the value it proposes, its confidence, and the
\* score recall gives it.  A memory learned on this very invoice carries its
\* number and date, and scores higher for it.
VendorMemory(id, learned, confidence) ==
    LET content ==
            [EmptyContent EXCEPT
                !.category = {"vendor"}, !.vendorName = {"Acme"}, !.field = {learned.field},
                !.invoiceNumber = IF learned.onInvoice THEN {"INV-1"} ELSE {},
                !.invoiceDate = IF learned.onInvoice THEN {ToISOString(10)} ELSE {},
                !.confidence = {confidence}, !.usageCount = {1},
                !.metadata = {[NoMetadata EXCEPT !.proposedValue = learned.proposedValue]}]
    IN [memory |-> Memory(id, "long_term", content, 0, 0, {}),
        content |-> content,
        score |-> ScoreMemory(content, "Acme", "INV-1", 10)]

\* What a vendor memory has learned: a field and the value it proposes; a
\* serviceDate memory may carry no value, or come from this invoice
Learned ==
    {[field |-> "serviceDate", proposedValue |-> {StrVal(ToISOString(3))}, onInvoice |-> FALSE],
     [field |-> "serviceDate", proposedValue |-> {}, onInvoice |-> FALSE],
     [field |-> "serviceDate", proposedValue |-> {StrVal(ToISOString(5))}, onInvoice |-> TRUE],
     [field |-> "vatIncluded", proposedValue |-> {}, onInvoice |-> FALSE],
     [field |-> "currency", proposedValue |-> {StrVal("USD")}, onInvoice |-> FALSE],
     [field |-> "freightSku", proposedValue |-> {StrVal("FRT-1")}, onInvoice |-> FALSE],
     [field |-> "skonto", proposedValue |-> {}, onInvoice |-> FALSE]}

\* A recall result holding the vendor and resolution memories given, as
\* recall builds it for the invoice Acme / INV-1 of day 10 (recall.ts 98-128)
RecallResultOf(vendorMemories, resolutionMemories) ==
    LET duplicateCandidates ==
            SelectSeq(resolutionMemories,
                      LAMBDA m : IsDuplicateCandidate(m, RecallQueryOf(BaseInvoice)))
        duplicate == Len(duplicateCandidates) > 0
    IN [vendorMemories |-> vendorMemories,
        correctionMemories |-> <<>>,
        resolutionMemories |-> resolutionMemories,
        duplicateDetected |-> duplicate,
        duplicateScore |-> IF duplicate THEN duplicateCandidates[1].score ELSE 0,
        duplicateReason |-> IF duplicate THEN {DUPLICATE_REASON} ELSE {},
        allMemories |-> vendorMemories \o resolutionMemories]

\* filterByCategory leaves the list in descending order of score
InScoreOrder(memories) ==
    \A i \in 1..(Len(memories) - 1) : memories[i].score >= memories[i + 1].score

\* Recall results: up to MaxRecalled vendor memories of any learned field
\* and confidence, in descending order of score; and no resolution memory,
\* or the resolution record learn has written for this very invoice (a
\* duplicate), or the record of another invoice that a later approving learn
\* call for the field currency has updated, which gives it a field.  Also
\* one vendor memory alone at the confidence 1.05, which three rejections
\* through the orchestrator give a memory stored at 0.90 (index.ts 106,
\* learn.ts 106-107)
RecallResults ==
    LET Scored(memory) ==
            [memory |-> memory, content |-> memory.content,
             score |-> ScoreMemory(memory.content, "Acme", "INV-1", 10)]
        recorded == ResolutionMemory([DirectSignal EXCEPT !.resolutionStatus = {"approved"}],
                                     "r1", 0)
        other == ResolutionMemory([DirectSignal EXCEPT !.resolutionStatus = {"approved"},
                                                       !.invoiceNumber = {"INV-2"},
                                                       !.invoiceDate = {ToISOString(20)}],
                                  "r1", 0)
        fielded == UpdatedMemory(other, [DirectSignal EXCEPT !.value = {StrVal("USD")}], {}, 0)
    IN UNION {{RecallResultOf(vendorMemories, resolutionMemories) :
                  vendorMemories \in
                      {ms \in {[i \in 1..n |-> VendorMemory(StoredIds[i], l[i], c[i])] :
                                  l \in [1..n -> Learned],
                                  c \in [1..n -> RecalledConfidences]} : InScoreOrder(ms)},
                  resolutionMemories \in {<<>>, <<Scored(recorded)>>, <<Scored(fielded)>>}} :
              n \in 0..MaxRecalled}
       \cup {RecallResultOf(<<VendorMemory(StoredIds[1], l, 105)>>, <<>>) : l \in Learned}

ApplyInvoices ==
    {BaseInvoice, [BaseInvoice EXCEPT !.lineItems = <<FreightItem>>],
     [BaseInvoice EXCEPT !.currency = ""]}

\* The calls a behaviour may start with: one per invoice, raw text and
\* recall result
InitApply ==
    /\ store = <<>>
    /\ nextUuid = 0
    /\ clock = 0
    /\ call \in {[op |-> "apply", invoice |-> invoice, rawText |-> rawText,
                  recall |-> recallResult] :
                     invoice \in ApplyInvoices, rawText \in ApplyTexts,
                     recallResult \in RecallResults}
    /\ ret = [op |-> "none"]

\* index.ts 60-183 with humanFeedback omitted: apply, decide and the output
\* contract for the recall result of the call; nothing is learned
ApplyAndDecide ==
    /\ call.op = "apply"
    /\ ret.op = "none"
    /\ \E applyResult \in {ApplyMemoriesToContext(call.invoice, call.rawText, call.recall)} :
         \E r \in {FinishProcess(store, nextUuid, clock, {}, call.recall, applyResult,
                                 DecideNextAction(applyResult))} :
             ret' = [op |-> "apply", applyResult |-> applyResult,
                     decision |-> r.decision, output |-> r.output]
    /\ UNCHANGED <<store, nextUuid, clock, call>>

NextApply == ApplyAndDecide

SpecApply == InitApply /\ [][NextApply]_vars

----------------------------------------------------------------------------
(* Learn on its own: learnFromSignal called with signals of any shape *)

MaxLearnCalls == 2

\* Stores a call may find: empty, holding the memory seed-1, or holding
\* under that id a memory whose content is not JSON
LearnStores ==
    {<<>>,
     <<SeedMemory("serviceDate", 75)>>,
     <<[SeedMemory("serviceDate", 75) EXCEPT !.content = TextContent("note")]>>}

\* Signals with and without memoryId (absent, or the empty string), with
\* and without approved, with a resolutionStatus, with isDuplicate true or
\* false, or with neither; and approving and rejecting signals for fields
\* of every kind the field mappings tell apart, or for no field
LearnSignals ==
    {[DirectSignal EXCEPT !.memoryId = id, !.approved = approved,
                          !.resolutionStatus = r[1], !.isDuplicate = r[2]] :
        id \in {{}, {"seed-1"}},
        approved \in {{}, {TRUE}, {FALSE}},
        r \in {<<{}, {}>>, <<{"approved"}, {}>>, <<{}, {TRUE}>>, <<{}, {FALSE}>>}}
    \cup {[DirectSignal EXCEPT !.memoryId = {""}]}
    \cup {[DirectSignal EXCEPT !.field = field, !.approved = {approved}] :
             field \in {{}, {"taxAmount"}, {"grossAmount"}, {"lineItem:1:sku"},
                        {"lineItem:1:quantity"}, {"sku"}},
             approved \in BOOLEAN}

InitLearn ==
    /\ store \in LearnStores
    /\ nextUuid = 0
    /\ clock = 0
    /\ call = [op |-> "none"]
    /\ ret = [op |-> "none"]

\* learnFromSignal(repository, signal), one of up to MaxLearnCalls calls
LearnCall(details, feedbackScore) ==
    /\ clock < MaxLearnCalls
    /\ Learn(details, feedbackScore)

NextLearn ==
    \E details \in LearnSignals :
        \E feedbackScore \in FeedbackScores(details.approved) :
            LearnCall(details, feedbackScore)

SpecLearn == InitLearn /\ [][NextLearn]_vars

----------------------------------------------------------------------------
(* Learn from separate runs: invoice-processing runs in separate processes *)
(* share data/memory.db; each statement of better-sqlite3 is atomic, the   *)
(* statements of one learnFromSignal call are not one transaction.         *)

MaxRuns == 2

\* The runs, each about to call learnFromSignal with the signal the
\* orchestrator builds for a correction that the memory seed-1 backs: pc is
\* the run's position in the call, existing the row it has read, result the
\* memory it returns
InitRace ==
    /\ store \in {<<>>} \cup {<<SeedMemory("vatIncluded", c)>> : c \in SeedConfidences}
    /\ nextUuid = 0
    /\ clock = 0
    /\ call \in {[op |-> "race", runs |-> runs] :
                    runs \in [1..MaxRuns ->
                        {[pc |-> "start",
                          details |-> [DirectSignal EXCEPT !.field = {"taxAmount"},
                                                           !.approved = {approved},
                                                           !.resolutionStatus =
                                                               IF ~resolved THEN {}
                                                               ELSE IF approved THEN {"approved"}
                                                               ELSE {"rejected"}],
                          feedbackScore |-> SignalFeedbackScore(approved),
                          existing |-> {}, now |-> 0, result |-> {}] :
                             approved \in BOOLEAN, resolved \in BOOLEAN}]}
    /\ ret = [op |-> "none"]

\* learn.ts 31-32: now = new Date(); existing = repository.getMemoryById(memoryId)
RunRead(r) ==
    /\ call.op = "race"
    /\ call.runs[r].pc = "start"
    /\ call' = [call EXCEPT !.runs[r].pc = "read",
                            !.runs[r].now = clock + 1,
                            !.runs[r].existing =
                                GetMemoryById(store, Get(call.runs[r].details.memoryId))]
    /\ clock' = clock + 1
    /\ UNCHANGED <<store, nextUuid, ret>>

\* A save that reads the row again as it writes: read and write are one step
RunSaveAtomic(r) ==
    /\ call.op = "race"
    /\ call.runs[r].pc = "read"
    /\ LET run == call.runs[r]
           current == GetMemoryById(store, Get(run.details.memoryId))
           memory == IF current = {} THEN CreatedMemory(run.details, run.now)
                     ELSE UpdatedMemory(Get(current), run.details, run.feedbackScore, run.now)
           returns == current = {} \/ ~WantsResolution(run.details)
       IN /\ store' = SaveMemory(store, memory)
          /\ call' = [call EXCEPT !.runs[r].pc = IF returns THEN "done" ELSE "saved",
                                  !.runs[r].result = {memory}]
          /\ ret' = IF returns THEN [op |-> "learn", memory |-> {memory}] ELSE ret
    /\ UNCHANGED <<nextUuid, clock>>

\* learn.ts 34-162: the memory built from the row that was read, and
\* repository.saveMemory of it; the create path returns here, and so does the
\* update path of a signal without resolution data
RunSave(r) ==
    /\ call.op = "race"
    /\ call.runs[r].pc = "read"
    /\ LET run == call.runs[r]
           memory == IF run.existing = {} THEN CreatedMemory(run.details, run.now)
                     ELSE UpdatedMemory(Get(run.existing), run.details,
                                        run.feedbackScore, run.now)
           returns == run.existing = {} \/ ~WantsResolution(run.details)
       IN /\ store' = SaveMemory(store, memory)
          /\ call' = [call EXCEPT !.runs[r].pc = IF returns THEN "done" ELSE "saved",
                                  !.runs[r].result = {memory}]
          /\ ret' = IF returns THEN [op |-> "learn", memory |-> {memory}] ELSE ret
    /\ UNCHANGED <<nextUuid, clock>>

\* learn.ts 163-189: repository.saveMemory of the resolution memory, and the
\* return of the updated memory
RunSaveResolution(r) ==
    /\ call.op = "race"
    /\ call.runs[r].pc = "saved"
    /\ store' = SaveMemory(store, ResolutionMemory(call.runs[r].details, Uuid(nextUuid + 1),
                                                   call.runs[r].now))
    /\ nextUuid' = nextUuid + 1
    /\ call' = [call EXCEPT !.runs[r].pc = "done"]
    /\ ret' = [op |-> "learn", memory |-> call.runs[r].result]
    /\ UNCHANGED clock

NextRace ==
    \E r \in 1..MaxRuns :
        \/ RunRead(r)
        \/ RunSave(r)
        \/ RunSaveResolution(r)

SpecRace == InitRace /\ [][NextRace]_vars

----------------------------------------------------------------------------
(* Review rounds: processInvoiceWithMemory run again and again on an invoice *)
(* with two freight line items, with feedback that names some, all or none  *)
(* of the proposed corrections                                              *)

MaxReviews == 2

\* What data/memory.db holds before the first round: nothing, or a vendor
\* memory for the freight SKU at a medium or a high confidence
ReviewStores ==
    {<<>>}
    \cup {<<[SeedMemory("freightSku", c) EXCEPT
               !.content.metadata = {[NoMetadata EXCEPT !.proposedValue = {StrVal("FREIGHT")}]}]>> :
             c \in {75, 90}}

\* The invoice Acme / INV-1 with two freight line items, as issued on day 10
\* and as issued again on day 20
ReviewInvoices ==
    {[BaseInvoice EXCEPT !.lineItems = <<FreightItem, [FreightItem EXCEPT !.id = "2"]>>,
                         !.issuedAt = d] : d \in {10, 20}}

ReviewTexts == {"Rechnung inkl. MwSt.", "Zahlbar mit 2% Skonto, Betrag 100 USD"}

\* humanFeedback: omitted; naming nothing; approving both line items;
\* approving the payment terms only; and approving the tax amount and the
\* first line item while rejecting both line items
ReviewFeedbacks ==
    {{},
     {[approvedCorrections |-> {}, rejectedCorrections |-> {}]},
     {[approvedCorrections |-> {"lineItem:1:sku", "lineItem:2:sku"},
       rejectedCorrections |-> {}]},
     {[approvedCorrections |-> {"paymentTermsNormalized"}, rejectedCorrections |-> {}]},
     {[approvedCorrections |-> {"taxAmount", "lineItem:1:sku"},
       rejectedCorrections |-> {"lineItem:1:sku", "lineItem:2:sku"}]}}

InitReview ==
    /\ store \in ReviewStores
    /\ nextUuid = 0
    /\ clock = 0
    /\ call = [op |-> "none"]
    /\ ret = [op |-> "none"]

\* processInvoiceWithMemory(repository, invoice, rawText, humanFeedback), one
\* of up to MaxReviews rounds: recall, apply, decide, the learn loop over the
\* proposed corrections, and the output contract
ProcessWithFeedback(invoice, rawText, humanFeedback) ==
    /\ clock < MaxReviews
    /\ \E recallResult \in {RecallMemories(store, RecallQueryOf(invoice))} :
       \E applyResult \in {ApplyMemoriesToContext(invoice, rawText, recallResult)} :
       \E decision \in {DecideNextAction(applyResult)} :
       \E r \in {FinishProcess(store, nextUuid, clock + 1, humanFeedback, recallResult,
                               applyResult, decision)} :
          /\ store' = r.store
          /\ nextUuid' = r.uuids
          /\ ret' = [op |-> "process", output |-> r.output, invoice |-> r.invoice,
                     recall |-> r.recall, decision |-> r.decision]
    /\ call' = [op |-> "process", invoice |-> invoice, rawText |-> rawText,
                humanFeedback |-> humanFeedback]
    /\ clock' = clock + 1

NextReview ==
    \E invoice \in ReviewInvoices :
        \E rawText \in ReviewTexts :
            \E humanFeedback \in ReviewFeedbacks :
                ProcessWithFeedback(invoice, rawText, humanFeedback)

SpecReview == InitReview /\ [][NextReview]_vars

----------------------------------------------------------------------------
(* Review rounds on a store that many rounds have filled *)

\* The memories table after n rounds that approved the payment terms of
\* invoice INV-1 of Acme, on top of the vendor's freight memory: each such
\* round stores one more correction memory under a fresh uuid (index.ts
\* 109-151, learn.ts create path) and no resolution record.  n is the
\* default search limit or one less; time is counted from the last of
\* these rounds, so round k has the time k - n.
InitCrowded ==
    /\ \E n \in {LIMIT_DEFAULT - 1, LIMIT_DEFAULT} :
           \E c \in {75, 90} :
               /\ store =
                      <<[SeedMemory("freightSku", c) EXCEPT
                           !.content.metadata =
                               {[NoMetadata EXCEPT !.proposedValue = {StrVal("FREIGHT")}]}]>>
                      \o [k \in 1..n |->
                            CreatedMemory([DirectSignal EXCEPT
                                             !.memoryId = {Uuid(k)},
                                             !.field = {"paymentTermsNormalized"},
                                             !.value = {StrVal("2% skonto detected")}],
                                          k - n)]
               /\ nextUuid = n
    /\ clock = 0
    /\ call = [op |-> "none"]
    /\ ret = [op |-> "none"]

\* Further rounds on the same invoice, without feedback, with both freight
\* lines approved, or with the tax approved and the freight lines rejected
NextCrowded ==
    \E invoice \in ReviewInvoices :
        \E humanFeedback \in {f \in ReviewFeedbacks :
                                 \A h \in f : /\ "paymentTermsNormalized" \notin h.approvedCorrections
                                               /\ h.approvedCorrections # {}} :
            ProcessWithFeedback(invoice, "Rechnung inkl. MwSt.", humanFeedback)

SpecCrowded == InitCrowded /\ [][NextCrowded]_vars

----------------------------------------------------------------------------
(* Confidence under learning: properties of Spec *)

\* The confidence a stored memory's content carries ({} when it has none)
StoredConfidence(st, id) ==
    UNION {ParseOrEmpty(m.content).confidence : m \in GetMemoryById(st, id)}

\* C1: after any sequence of calls, every memory that learning has written
\* (a write stamps updatedAt with the time of the call, which is after 0)
\* stores a confidence in [0, 0.95]
C1_LearnedConfidenceBounded ==
    \A i \in DOMAIN store :
        store[i].updatedAt > 0 =>
            \A c \in ParseOrEmpty(store[i].content).confidence :
                0 <= c /\ c <= CONFIDENCE_CAP

\* C2: a run of processInvoiceWithMemory whose feedback rejects a correction
\* that an existing memory backs leaves that memory's stored confidence
\* lower than before, or at the floor 0; it never raises it
C2_RejectionLowersConfidence ==
    [][(call'.op = "process" /\ call'.humanFeedback # {}) =>
          \A i \in DOMAIN ret'.output.proposedCorrections :
              LET correction == ret'.output.proposedCorrections[i]
              IN (/\ correction.field \in Get(call'.humanFeedback).rejectedCorrections
                  /\ correction.memoryId # {})
                 => \A id \in correction.memoryId :
                        \A before \in StoredConfidence(store, id) :
                            \A after \in StoredConfidence(store', id) :
                                after <= before /\ (after < before \/ after = 0)]_vars

\* C3: a rejecting learnFromSignal call with feedbackScore omitted or
\* positive, on an existing memory whose confidence is in [0, 0.95], leaves a
\* confidence that is not higher and not below 0, and that is a whole step
\* lower unless it is 0: so consecutive rejections reach 0 after finitely
\* many calls, and 0 stays 0
C3_RejectionDecays ==
    [][(/\ call'.op = "learn"
        /\ call'.details.approved = {FALSE}
        /\ call'.feedbackScore \in {{}, {1}}
        /\ call'.details.memoryId # {})
       => \A before \in StoredConfidence(store, Get(call'.details.memoryId)) :
              (0 <= before /\ before <= CONFIDENCE_CAP) =>
                  \A after \in StoredConfidence(store', Get(call'.details.memoryId)) :
                      /\ after <= before
                      /\ after >= 0
                      /\ (after = 0 \/ before - after >= CONFIDENCE_STEP)]_vars

\* A rejection with feedbackScore omitted has found the memory at 0, or
\* brought it there, after at least two learning calls on it
C3_Witness ==
    /\ call.op = "learn"
    /\ call.details.approved = {FALSE}
    /\ call.feedbackScore = {}
    /\ ret.memory # {}
    /\ ParseOrEmpty(Get(ret.memory).content).confidence = {0}
    /\ \E n \in ParseOrEmpty(Get(ret.memory).content).usageCount : n >= 3

\* C4: an approving learnFromSignal call (feedbackScore omitted or +1, the
\* scores an approval is given) on an existing memory whose confidence is in
\* [0, 0.95] leaves a confidence that is not lower and not above 0.95, and
\* that is a whole step higher unless it is 0.95: so consecutive approvals
\* reach 0.95 after finitely many calls, and 0.95 stays 0.95
C4_ApprovalReinforces ==
    [][(/\ call'.op = "learn"
        /\ call'.details.approved = {TRUE}
        /\ call'.details.memoryId # {})
       => \A before \in StoredConfidence(store, Get(call'.details.memoryId)) :
              (0 <= before /\ before <= CONFIDENCE_CAP) =>
                  \A after \in StoredConfidence(store', Get(call'.details.memoryId)) :
                      /\ after >= before
                      /\ after <= CONFIDENCE_CAP
                      /\ (after = CONFIDENCE_CAP \/ after - before >= CONFIDENCE_STEP)]_vars

\* An approval has found the memory at 0.95, or brought it there, after at
\* least two learning calls on it
C4_Witness ==
    /\ call.op = "learn"
    /\ call.details.approved = {TRUE}
    /\ ret.memory # {}
    /\ ParseOrEmpty(Get(ret.memory).content).confidence = {CONFIDENCE_CAP}
    /\ \E n \in ParseOrEmpty(Get(ret.memory).content).usageCount : n >= 3


----------------------------------------------------------------------------
(* Recall: properties of SpecRecall *)

\* C5: every scored memory a recall returns has a score in [0, 1], whatever
\* confidence the stored content carries
C5_ScoreInUnitRange ==
    ret.op = "recall" =>
        \A i \in DOMAIN ret.summary.allMemories :
            /\ 0 <= ret.summary.allMemories[i].score
            /\ ret.summary.allMemories[i].score <= SCORE_MAX

Retrieved(st, query) ==
    LET limit == Get(OrElse(query.limit, {LIMIT_DEFAULT}))
    IN Range(SearchMemories(st, query.vendorName, limit))
       \cup Range(SearchMemories(st, query.invoiceNumber, limit))

\* C7: duplicateDetected is true exactly when some retrieved, parseable
\* resolution memory has the query's vendor name ignoring case, the query's
\* invoice number exactly, and a stored invoice date that is not empty;
\* when it is false, duplicateScore is 0
C7_DuplicateIffThreeConditions ==
    ret.op = "recall" =>
        LET query == call.query
            matching ==
                {m \in Retrieved(store, query) :
                    /\ IsLearnedContent(m.content)
                    /\ m.content.category = {"resolution"}
                    /\ \E v \in m.content.vendorName :
                           ToLowerCase(v) = ToLowerCase(query.vendorName)
                    /\ \E n \in m.content.invoiceNumber : n = query.invoiceNumber
                    /\ \E d \in m.content.invoiceDate : d # ""}
        IN /\ ret.summary.duplicateDetected <=> matching # {}
           /\ ~ret.summary.duplicateDetected => ret.summary.duplicateScore = 0

\* A duplicate is detected through a vendor name that differs in case
C7_Witness ==
    /\ ret.op = "recall"
    /\ ret.summary.duplicateDetected
    /\ \E i \in DOMAIN ret.summary.resolutionMemories :
           /\ ret.summary.resolutionMemories[i].content.vendorName = {"ACME"}
           /\ call.query.vendorName = "Acme"

\* C8: a duplicate is flagged only when the matching resolution memory's
\* invoice date is within the 2-day window of the query's: when every
\* resolution memory with the query's vendor and invoice number carries a
\* date further away than that, duplicateDetected is false
C8_DistantDateNotDuplicate ==
    ret.op = "recall" =>
        LET matching ==
                {i \in DOMAIN ret.summary.resolutionMemories :
                    LET m == ret.summary.resolutionMemories[i]
                    IN /\ \E v \in m.content.vendorName :
                              ToLowerCase(v) = ToLowerCase(call.query.vendorName)
                       /\ m.content.invoiceNumber = {call.query.invoiceNumber}}
            Distant(m) ==
                \E text \in m.content.invoiceDate :
                    \E day \in DateParse(text) :
                        Abs(day - call.query.invoiceDate) > DATE_WINDOW_DAYS
        IN (matching # {} /\ \A i \in matching : Distant(ret.summary.resolutionMemories[i]))
           => ~ret.summary.duplicateDetected

----------------------------------------------------------------------------
(* Apply and decide: properties of SpecApply *)

\* C9: every correction apply emits has confidence >= 0.7, and >= 0.8 when
\* it is applied; a heuristic whose governing confidence (that of the first
\* vendor memory of its field, else its default) is below 0.7 emits no
\* correction and leaves its part of the invoice as it was
C9_ApplyRespectsBands ==
    ret.op = "apply" =>
        LET result == ret.applyResult
            corrections == result.proposedCorrections
            before == call.invoice
            after == result.normalizedInvoice
            Governing(field, default) ==
                OrElse({Get(m.content.confidence) :
                           m \in FindByField(call.recall.vendorMemories, field)}, default)
            Low(field, default) ==
                \A g \in Governing(field, default) : g < MEDIUM_CONFIDENCE_THRESHOLD
            Emitted(fields) == \E i \in DOMAIN corrections : corrections[i].field \in fields
        IN /\ \A i \in DOMAIN corrections :
                  /\ corrections[i].applied =>
                         corrections[i].confidence >= HIGH_CONFIDENCE_THRESHOLD
                  /\ corrections[i].confidence >= MEDIUM_CONFIDENCE_THRESHOLD
           /\ Low("serviceDate", {}) =>
                  ~Emitted({"serviceDate"}) /\ after.serviceDate = before.serviceDate
           /\ Low("vatIncluded", {DEFAULT_VAT_CONFIDENCE}) =>
                  /\ ~Emitted({"taxAmount", "grossAmount"})
                  /\ after.taxAmount = before.taxAmount
                  /\ after.grossAmount = before.grossAmount
           /\ Low("currency", {DEFAULT_CURRENCY_CONFIDENCE}) =>
                  ~Emitted({"currency"}) /\ after.currency = before.currency
           /\ Low("freightSku", {DEFAULT_FREIGHT_CONFIDENCE}) =>
                  /\ ~Emitted({LineItemSkuField(item) : item \in Range(before.lineItems)})
                  /\ after.lineItems = before.lineItems
                  /\ result.invoice.lineItems = before.lineItems
           /\ Low("skonto", {DEFAULT_SKONTO_CONFIDENCE}) =>
                  /\ ~Emitted({"paymentTermsNormalized"})
                  /\ after.paymentTermsNormalized = before.paymentTermsNormalized

\* One run in which a correction is applied, another is only proposed, and
\* the VAT heuristic, though the raw text says VAT is included, stays silent
\* because its memory's confidence is below 0.7
C9_Witness ==
    /\ ret.op = "apply"
    /\ \E i \in DOMAIN ret.applyResult.proposedCorrections :
           ret.applyResult.proposedCorrections[i].applied
    /\ \E i \in DOMAIN ret.applyResult.proposedCorrections :
           ~ret.applyResult.proposedCorrections[i].applied
    /\ DetectVatIncluded(call.rawText)
    /\ \E m \in FindByField(call.recall.vendorMemories, "vatIncluded") :
           Get(m.content.confidence) < MEDIUM_CONFIDENCE_THRESHOLD
    /\ \A i \in DOMAIN ret.applyResult.proposedCorrections :
           ret.applyResult.proposedCorrections[i].field # "taxAmount"

\* C10: when recall reported a duplicate, the decision requires human
\* review and so does the output, whatever was applied or proposed
C10_DuplicateForcesReview ==
    (ret.op = "apply" /\ call.recall.duplicateDetected) =>
        ret.decision.requiresHumanReview /\ ret.output.requiresHumanReview

\* A duplicate is reported while every correction emitted was applied at
\* high confidence, the case in which the run would otherwise be automatic
C10_Witness ==
    /\ ret.op = "apply"
    /\ call.recall.duplicateDetected
    /\ ret.output.proposedCorrections # <<>>
    /\ \A i \in DOMAIN ret.output.proposedCorrections :
           /\ ret.output.proposedCorrections[i].applied
           /\ ret.output.proposedCorrections[i].confidence >= HIGH_CONFIDENCE_THRESHOLD
    /\ ret.output.requiresHumanReview

\* C11: the decision waives the review exactly when no duplicate was
\* detected, some applied correction has confidence >= 0.8 and no correction
\* that is proposed but not applied has confidence in [0.7, 0.8); in every
\* other case it requires the review
C11_ReviewWaivedExactly ==
    ret.op = "apply" =>
        LET corrections == ret.applyResult.proposedCorrections
            highApplied ==
                \E i \in DOMAIN corrections :
                    /\ corrections[i].applied
                    /\ corrections[i].confidence >= HIGH_CONFIDENCE_THRESHOLD
            mediumUnapplied ==
                \E i \in DOMAIN corrections :
                    /\ ~corrections[i].applied
                    /\ corrections[i].confidence >= MEDIUM_CONFIDENCE_THRESHOLD
                    /\ corrections[i].confidence < HIGH_CONFIDENCE_THRESHOLD
        IN ret.decision.requiresHumanReview
               <=> ~(~call.recall.duplicateDetected /\ highApplied /\ ~mediumUnapplied)

\* No duplicate, a correction applied at high confidence and another only
\* suggested at medium confidence: the review is required
C11_Witness ==
    /\ ret.op = "apply"
    /\ ~call.recall.duplicateDetected
    /\ \E i \in DOMAIN ret.applyResult.proposedCorrections :
           /\ ret.applyResult.proposedCorrections[i].applied
           /\ ret.applyResult.proposedCorrections[i].confidence >= HIGH_CONFIDENCE_THRESHOLD
    /\ \E i \in DOMAIN ret.applyResult.proposedCorrections :
           /\ ~ret.applyResult.proposedCorrections[i].applied
           /\ ret.applyResult.proposedCorrections[i].confidence >= MEDIUM_CONFIDENCE_THRESHOLD
           /\ ret.applyResult.proposedCorrections[i].confidence < HIGH_CONFIDENCE_THRESHOLD
    /\ ret.decision.requiresHumanReview

----------------------------------------------------------------------------
(* The end-to-end scenarios: properties of Spec and SpecApply *)

\* No parseable memory of the store is a vendor memory of the given vendor
NoVendorMemoryFor(st, vendorName) ==
    \A i \in DOMAIN st :
        LET content == ParseOrEmpty(st[i].content)
        IN ~(/\ content.category = {"vendor"}
             /\ \E v \in content.vendorName : ToLowerCase(v) = ToLowerCase(vendorName))

\* C12: when the store holds no vendor memory for the invoice's vendor, a
\* run on a raw text with a VAT-included phrase proposes taxAmount at 0.75
\* without applying it, every freight line item gets a sku correction
\* proposing FREIGHT at 0.75 without applying it, the tax amount and the
\* skus are left as they were, and the decision requires human review
C12_NoMemoryProposesOnly ==
    [][(call'.op = "process" /\ NoVendorMemoryFor(store, call'.invoice.vendorName)) =>
          LET corrections == ret'.output.proposedCorrections
              before == call'.invoice
              after == ret'.output.normalizedInvoice
          IN /\ DetectVatIncluded(call'.rawText) =>
                    \E i \in DOMAIN corrections :
                        /\ corrections[i].field = "taxAmount"
                        /\ corrections[i].confidence = DEFAULT_VAT_CONFIDENCE
                        /\ ~corrections[i].applied
             /\ \A k \in DOMAIN before.lineItems :
                    LooksLikeFreight(before.lineItems[k]) =>
                        \E i \in DOMAIN corrections :
                            /\ corrections[i].field = LineItemSkuField(before.lineItems[k])
                            /\ corrections[i].proposedValue = StrVal("FREIGHT")
                            /\ corrections[i].confidence = DEFAULT_FREIGHT_CONFIDENCE
                            /\ ~corrections[i].applied
             /\ after.taxAmount = before.taxAmount
             /\ \A k \in DOMAIN before.lineItems :
                    after.lineItems[k].sku = before.lineItems[k].sku
             /\ ret'.decision.requiresHumanReview]_vars

\* No parseable memory of the store is a vendor memory
NoVendorMemory(st) ==
    \A i \in DOMAIN st : ParseOrEmpty(st[i].content).category # {"vendor"}

\* The store holds a vendor memory for the field vatIncluded at the given
\* confidence
HasVatMemory(st, confidence) ==
    \E i \in DOMAIN st :
        LET content == ParseOrEmpty(st[i].content)
        IN /\ content.category = {"vendor"}
           /\ content.field = {"vatIncluded"}
           /\ content.confidence = {confidence}

\* A run of processInvoiceWithMemory, from a store without vendor memory,
\* whose feedback approves the taxAmount correction the run proposed
ApprovesProposedTax(st, c, r) ==
    /\ c.op = "process"
    /\ NoVendorMemory(st)
    /\ \E feedback \in c.humanFeedback : "taxAmount" \in feedback.approvedCorrections
    /\ \E i \in DOMAIN r.output.proposedCorrections :
           r.output.proposedCorrections[i].field = "taxAmount"

\* C13 as stated: starting from a store with no vendor memory, after the
\* human approves the proposed taxAmount correction the store holds a vendor
\* memory for vatIncluded whose confidence is 0.85
C13_ApprovalStoresVatAt85 ==
    [][ApprovesProposedTax(store, call', ret') => HasVatMemory(store', 85)]_vars

\* C13 amended: starting from a store with no vendor memory, after the human
\* approves the proposed taxAmount correction the store holds a vendor
\* memory for vatIncluded whose confidence is 0.8, the initial confidence of
\* a memory created by an approval
C13_ApprovalStoresVatAt80 ==
    [][ApprovesProposedTax(store, call', ret') =>
          HasVatMemory(store', INITIAL_CONFIDENCE_APPROVED)]_vars

\* An approval of the proposed taxAmount correction has created the
\* vatIncluded memory: recall had found no vendor memory, and the run
\* reports one memory update with the new confidence 0.8
C13_Witness ==
    /\ call.op = "process"
    /\ \E feedback \in call.humanFeedback : "taxAmount" \in feedback.approvedCorrections
    /\ ret.recall.vendorMemories = <<>>
    /\ Len(ret.output.memoryUpdates) = 1
    /\ ret.output.memoryUpdates[1].newConfidence = INITIAL_CONFIDENCE_APPROVED
    /\ ret.output.memoryUpdates[1].action = "reinforce"
    /\ HasVatMemory(store, INITIAL_CONFIDENCE_APPROVED)

FillsServiceDate(m) ==
    /\ m.content.category = {"vendor"}
    /\ m.content.field = {"serviceDate"}
    /\ \E c \in m.content.confidence : c >= HIGH_CONFIDENCE_THRESHOLD
    /\ MemoryProposedValue(m) # {}

\* The run applied a serviceDate correction that carries the id of the
\* recalled memory m and wrote m's proposed value to the output invoice
ServiceDateFilledFrom(m, result) ==
    /\ \E i \in DOMAIN result.proposedCorrections :
           /\ result.proposedCorrections[i].field = "serviceDate"
           /\ result.proposedCorrections[i].applied
           /\ result.proposedCorrections[i].memoryId = {m.memory.id}
    /\ result.normalizedInvoice.serviceDate = MemoryProposedValue(m)

\* C15 as stated: when the invoice has no serviceDate and recall returns
\* some vendor memory for serviceDate with confidence >= 0.8 and a proposed
\* value, apply emits an applied serviceDate correction carrying the id of
\* such a memory and the output serviceDate is that memory's proposed value
C15_SomeHighMemoryFillsServiceDate ==
    (ret.op = "apply" /\ call.invoice.serviceDate = {}) =>
        LET filling == {m \in Range(call.recall.vendorMemories) : FillsServiceDate(m)}
        IN filling # {} => \E m \in filling : ServiceDateFilledFrom(m, ret.output)

\* C15 amended: when the invoice has no serviceDate and the first, that is
\* the highest-scored, vendor memory for serviceDate that recall returns has
\* confidence >= 0.8 and a proposed value, apply emits an applied serviceDate
\* correction carrying that memory's id and the output serviceDate is that
\* memory's proposed value
C15_FirstHighMemoryFillsServiceDate ==
    (ret.op = "apply" /\ call.invoice.serviceDate = {}) =>
        \A m \in FindByField(call.recall.vendorMemories, "serviceDate") :
            FillsServiceDate(m) => ServiceDateFilledFrom(m, ret.output)

\* Two serviceDate memories were recalled, both fit to fill the field with
\* different values: the date written is the one of the first
C15_Witness ==
    /\ ret.op = "apply"
    /\ call.invoice.serviceDate = {}
    /\ Len(call.recall.vendorMemories) = 2
    /\ FillsServiceDate(call.recall.vendorMemories[1])
    /\ FillsServiceDate(call.recall.vendorMemories[2])
    /\ MemoryProposedValue(call.recall.vendorMemories[1])
           # MemoryProposedValue(call.recall.vendorMemories[2])
    /\ ServiceDateFilledFrom(call.recall.vendorMemories[1], ret.output)

----------------------------------------------------------------------------
(* Learn: properties of SpecLearn *)

\* C16: a learnFromSignal call whose signal lacks approved, or lacks a
\* memoryId (absent or empty), returns undefined and leaves the store exactly
\* as it was: nothing is created, updated or given a resolution record
C16_IncompleteSignalIsNoOp ==
    [][(/\ call'.op = "learn"
        /\ \/ call'.details.approved = {}
           \/ call'.details.memoryId = {}
           \/ call'.details.memoryId = {""})
       => /\ ret'.memory = {}
          /\ store' = store
          /\ nextUuid' = nextUuid]_vars

\* A signal without approved named the stored memory seed-1 and asked for a
\* resolution record: the call returned undefined and the store still holds
\* that memory alone, as it was seeded
C16_Witness ==
    /\ call.op = "learn"
    /\ call.details.approved = {}
    /\ call.details.memoryId = {"seed-1"}
    /\ WantsResolution(call.details)
    /\ ret.memory = {}
    /\ store = <<SeedMemory("serviceDate", 75)>>

\* The ids under which the store holds a memory
StoredIdsOf(st) == {st[i].id : i \in DOMAIN st}

\* C17: a learnFromSignal call whose signal carries approved but no memoryId
\* generates a fresh id and creates a memory under it: the call returns that
\* memory, and the store gains it as one new record
C17_MissingIdIsGenerated ==
    [][(/\ call'.op = "learn"
        /\ call'.details.approved # {}
        /\ call'.details.memoryId = {})
       => /\ ret'.memory # {}
          /\ \A memory \in ret'.memory :
                 /\ memory.id \notin StoredIdsOf(store)
                 /\ GetMemoryById(store', memory.id) = {memory}
          /\ Len(store') = Len(store) + 1]_vars

\* A record of the store that a resolution-recording call has added: a new
\* id, category resolution, the initial confidence of the approval given,
\* usageCount 1 and a boolean metadata.isDuplicate
IsNewResolutionRecord(memory, before, approved) ==
    /\ memory.id \notin StoredIdsOf(before)
    /\ LET content == ParseOrEmpty(memory.content)
       IN /\ content.category = {"resolution"}
          /\ content.confidence = {InitialConfidence(approved)}
          /\ content.usageCount = {1}
          /\ \E metadata \in content.metadata :
                 \E flag \in metadata.isDuplicate : flag \in BOOLEAN

\* C18: in both paths of learnFromSignal, whether or not a memory exists
\* under the signal's id, a signal that carries a resolutionStatus or
\* isDuplicate = true makes the call save a second memory under a new id:
\* category resolution, confidence 0.8 if approved else 0.5, usageCount 1 and
\* a boolean metadata.isDuplicate
C18_ResolutionRecordedInBothPaths ==
    [][(/\ call'.op = "learn"
        /\ call'.details.approved # {}
        /\ call'.details.memoryId # {}
        /\ call'.details.memoryId # {""}
        /\ WantsResolution(call'.details))
       => \E i \in DOMAIN store' :
              IsNewResolutionRecord(store'[i], store, Get(call'.details.approved))]_vars

----------------------------------------------------------------------------
(* Frame and audit: properties of SpecApply and Spec *)

\* C19: apply never changes the invoice object the caller passed: after the
\* call every field of it, and every field of each of its line items, the
\* sku included, has the value it had before, even when corrections were
\* applied to the returned normalizedInvoice
C19_CallerInvoiceUntouched ==
    ret.op = "apply" =>
        /\ ret.applyResult.invoice = call.invoice
        /\ \A k \in DOMAIN call.invoice.lineItems :
               ret.applyResult.invoice.lineItems[k].sku = call.invoice.lineItems[k].sku

\* C20: every run of processInvoiceWithMemory returns an audit trail of
\* exactly four entries whose steps are, in order, recall, apply, decide and
\* learn, with or without human feedback and whatever the number of
\* corrections
C20_AuditTrailHasFourStages ==
    ret.op = "process" =>
        /\ Len(ret.output.auditTrail) = 4
        /\ [i \in 1..4 |-> ret.output.auditTrail[i].step]
               = <<"recall", "apply", "decide", "learn">>

\* A run without feedback that proposed two corrections and learned
\* nothing: its trail ends with the learn entry that says so
C20_Witness ==
    /\ ret.op = "process"
    /\ call.humanFeedback = {}
    /\ Len(ret.output.proposedCorrections) = 2
    /\ ret.output.memoryUpdates = <<>>
    /\ Len(ret.output.auditTrail) = 4
    /\ ret.output.auditTrail[4].step = "learn"
    /\ ret.output.auditTrail[4].details.reason = {NO_FEEDBACK_REASON}

----------------------------------------------------------------------------
(* Frame and store: properties of Spec *)

\* C21: a run of processInvoiceWithMemory without human feedback leaves the
\* memory store as it was (nothing is saved, no id is drawn), returns empty
\* memoryUpdates, and its learn audit entry carries an empty update list
\* together with the reason that no learning was performed
C21_NoFeedbackLearnsNothing ==
    [][(call'.op = "process" /\ call'.humanFeedback = {}) =>
          /\ store' = store
          /\ nextUuid' = nextUuid
          /\ ret'.output.memoryUpdates = <<>>
          /\ \E i \in DOMAIN ret'.output.auditTrail :
                 /\ ret'.output.auditTrail[i].step = "learn"
                 /\ ret'.output.auditTrail[i].details.updates = <<>>
                 /\ ret'.output.auditTrail[i].details.reason = {NO_FEEDBACK_REASON}]_vars

\* A run without feedback applied a correction that a stored memory backs:
\* the memory is still as it was seeded, and the run reports no update
C21_Witness ==
    /\ call.op = "process"
    /\ call.humanFeedback = {}
    /\ store = <<SeedMemory("vatIncluded", 90)>>
    /\ \E i \in DOMAIN ret.output.proposedCorrections :
           /\ ret.output.proposedCorrections[i].memoryId = {"seed-1"}
           /\ ret.output.proposedCorrections[i].applied
    /\ ret.output.memoryUpdates = <<>>

\* C22: across any sequence of processInvoiceWithMemory and learnFromSignal
\* calls no memory id ever disappears from the store: the ids stored after a
\* call include every id stored before it
C22_NoIdDisappears ==
    [][StoredIdsOf(store) \subseteq StoredIdsOf(store')]_vars

\* One run with feedback has grown the store from the seeded memory to three:
\* the seed is still there, beside the records the run created
C22_Witness ==
    /\ call.op = "process"
    /\ call.humanFeedback # {}
    /\ Len(store) >= 3
    /\ store[1].id = "seed-1"
    /\ Cardinality(StoredIdsOf(store)) = Len(store)

----------------------------------------------------------------------------
(* Use counts: properties of SpecLearn *)

\* C23: for every memory id, the usageCount stored under it never decreases
\* across learnFromSignal calls, and a call that updates the existing memory
\* of its memoryId raises the usageCount stored there by exactly 1 (a content
\* that carries no count is taken at 0)
C23_UsageCountOnlyGrows ==
    [][\A i \in DOMAIN store :
          LET id == store[i].id
              before == ParseOrEmpty(store[i].content).usageCount
              after == UNION {ParseOrEmpty(m.content).usageCount :
                                 m \in GetMemoryById(store', id)}
              updates == /\ call'.op = "learn"
                         /\ call'.details.memoryId = {id}
                         /\ call'.details.approved # {}
          IN /\ before # {} => after # {}
             /\ \A b \in before : \A a \in after : a >= b
             /\ updates => after = {Get(OrElse(before, {0})) + 1}]_vars

\* Two calls have updated the seeded memory, an approval and a rejection in
\* either order: its use count has gone from 1 to 3
C23_Witness ==
    /\ call.op = "learn"
    /\ clock = 2
    /\ call.details.memoryId = {"seed-1"}
    /\ ret.memory # {}
    /\ Len(store) >= 1
    /\ store[1].id = "seed-1"
    /\ ParseOrEmpty(store[1].content).usageCount = {3}

----------------------------------------------------------------------------
(* Learning from separate runs: properties of SpecRace *)

\* C24: learnFromSignal calls of separate runs against the same existing
\* memory id can interleave their read and their write so that an update is
\* lost.  When all runs have returned, the stored memory is the record one
\* run built from the row it had read, so it carries one confidence
\* adjustment of that row; and when two runs had read the same row, the
\* stored usageCount falls short of one increment per call (with two calls:
\* raised by 1 instead of 2), while runs that each read what the other wrote
\* leave one increment per call
C24_InterleavedLearnLosesUpdate ==
    (/\ call.op = "race"
     /\ \A r \in 1..MaxRuns : call.runs[r].pc = "done" /\ call.runs[r].existing # {})
    => LET Usage(memory) == Get(OrElse(ParseOrEmpty(memory.content).usageCount, {0}))
           stored == Get(GetMemoryById(store, "seed-1"))
           first == CHOOSE r \in 1..MaxRuns :
                       \A q \in 1..MaxRuns :
                           Usage(Get(call.runs[r].existing)) <= Usage(Get(call.runs[q].existing))
           base == Usage(Get(call.runs[first].existing))
           sameRowRead == \E r, q \in 1..MaxRuns :
                              r # q /\ call.runs[r].existing = call.runs[q].existing
       IN /\ \E r \in 1..MaxRuns :
                 /\ stored = Get(call.runs[r].result)
                 /\ stored = UpdatedMemory(Get(call.runs[r].existing), call.runs[r].details,
                                           call.runs[r].feedbackScore, call.runs[r].now)
          /\ sameRowRead => Usage(stored) < base + MaxRuns
          /\ ~sameRowRead => Usage(stored) = base + MaxRuns

\* Two approving runs have both read the memory at confidence 0.75 and use
\* count 1 before either wrote: after both have returned the store holds
\* use count 2, not 3, and confidence 0.8, not 0.85
C24_Witness ==
    /\ call.op = "race"
    /\ \A r \in 1..2 :
           /\ call.runs[r].pc = "done"
           /\ call.runs[r].details.approved = {TRUE}
           /\ call.runs[r].existing = {SeedMemory("vatIncluded", 75)}
    /\ ParseOrEmpty(Get(GetMemoryById(store, "seed-1")).content).usageCount = {2}
    /\ ParseOrEmpty(Get(GetMemoryById(store, "seed-1")).content).confidence = {80}

----------------------------------------------------------------------------
(* Resolution memories and apply: properties of SpecApply *)

\* C25: apply never uses a resolution memory as the source of a correction.
\* No correction and no applied-memory record of a run carries the id of a
\* resolution memory of the recall result; and the corrections, the
\* applied-memory records and the invoice that apply returns are those it
\* returns for the same recall result with the resolution memories taken out
C25_ResolutionNeverApplied ==
    ret.op = "apply" =>
        LET result == ret.applyResult
            resolutionIds ==
                {m.memory.id : m \in {x \in Range(call.recall.allMemories) :
                                         x.content.category = {"resolution"}}}
            bare == ApplyMemoriesToContext(call.invoice, call.rawText,
                                           RecallResultOf(call.recall.vendorMemories, <<>>))
        IN /\ \A i \in DOMAIN result.proposedCorrections :
                  result.proposedCorrections[i].memoryId \cap resolutionIds = {}
           /\ \A i \in DOMAIN result.appliedMemories :
                  result.appliedMemories[i].memoryId \notin resolutionIds
           /\ result.proposedCorrections = bare.proposedCorrections
           /\ result.appliedMemories = bare.appliedMemories
           /\ result.normalizedInvoice = bare.normalizedInvoice
           /\ ret.output.normalizedInvoice = bare.normalizedInvoice

\* Recall returned a resolution memory that carries the field currency at
\* confidence 0.85 and no vendor memory for that field, for an invoice
\* without currency whose text names one: the currency is only proposed, at
\* the default 0.7 and without a memory id, and the invoice is left without
C25_Witness ==
    /\ ret.op = "apply"
    /\ \E i \in DOMAIN call.recall.resolutionMemories :
           /\ call.recall.resolutionMemories[i].content.field = {"currency"}
           /\ call.recall.resolutionMemories[i].content.confidence = {85}
    /\ FindByField(call.recall.vendorMemories, "currency") = {}
    /\ call.invoice.currency = ""
    /\ \E i \in DOMAIN ret.applyResult.proposedCorrections :
           /\ ret.applyResult.proposedCorrections[i].field = "currency"
           /\ ret.applyResult.proposedCorrections[i].confidence = DEFAULT_CURRENCY_CONFIDENCE
           /\ ret.applyResult.proposedCorrections[i].memoryId = {}
           /\ ~ret.applyResult.proposedCorrections[i].applied
    /\ ret.output.normalizedInvoice.currency = ""

----------------------------------------------------------------------------
(* Exposed confidences: properties of Spec *)

\* C26: every confidence value a run of processInvoiceWithMemory exposes,
\* the confidence of each proposed correction, the confidenceScore and the
\* newConfidence of each memory update, lies in [0, 1]
C26_ExposedConfidencesInUnitRange ==
    ret.op = "process" =>
        /\ \A i \in DOMAIN ret.output.proposedCorrections :
               /\ 0 <= ret.output.proposedCorrections[i].confidence
               /\ ret.output.proposedCorrections[i].confidence <= SCORE_MAX
        /\ 0 <= ret.output.confidenceScore
        /\ ret.output.confidenceScore <= SCORE_MAX
        /\ \A i \in DOMAIN ret.output.memoryUpdates :
               /\ 0 <= ret.output.memoryUpdates[i].newConfidence
               /\ ret.output.memoryUpdates[i].newConfidence <= SCORE_MAX

----------------------------------------------------------------------------
(* Scores and buckets: properties of SpecRecall *)

\* C27: the score recall gives a memory is min(1, confidence + 0.05 * k),
\* where k counts which of three hold: the stored vendor name equals the
\* query's ignoring case, the stored invoice number equals the query's
\* exactly, the stored invoice date is a date within 2 days of the query's
\* on either side; a field the content does not carry contributes nothing
C27_ScoreIsConfidencePlusBonuses ==
    ret.op = "recall" =>
        \A i \in DOMAIN ret.summary.allMemories :
            LET content == ret.summary.allMemories[i].content
                query == call.query
                vendorHit ==
                    \E v \in content.vendorName : ToLowerCase(v) = ToLowerCase(query.vendorName)
                numberHit == \E n \in content.invoiceNumber : n = query.invoiceNumber
                dateHit ==
                    \E text \in content.invoiceDate :
                        \E day \in DateParse(text) :
                            /\ query.invoiceDate - DATE_WINDOW_DAYS <= day
                            /\ day <= query.invoiceDate + DATE_WINDOW_DAYS
                k == (IF vendorHit THEN 1 ELSE 0) + (IF numberHit THEN 1 ELSE 0)
                     + (IF dateHit THEN 1 ELSE 0)
            IN \A confidence \in content.confidence :
                   ret.summary.allMemories[i].score
                       = Min(SCORE_MAX, confidence + SCORE_BONUS * k)

\* A memory stored at 0.8 with the query's vendor in another case, the
\* query's number and a date one day after the query's scores 0.95; beside
\* it a memory without a vendor name scores two bonuses
C27_Witness ==
    /\ ret.op = "recall"
    /\ call.query.invoiceDate = 12
    /\ \E i \in DOMAIN ret.summary.allMemories :
           /\ ret.summary.allMemories[i].content.vendorName = {"ACME"}
           /\ ret.summary.allMemories[i].content.invoiceDate = {ToISOString(13)}
           /\ ret.summary.allMemories[i].content.confidence = {80}
           /\ ret.summary.allMemories[i].score = 95
    /\ \E i \in DOMAIN ret.summary.allMemories :
           /\ ret.summary.allMemories[i].content.vendorName = {}
           /\ ret.summary.allMemories[i].score = 90

\* C28: in the summary of a recall each of the vendor, correction and
\* resolution buckets holds exactly the scored memories of its category,
\* each memory id once, in order of non-increasing score, memories of equal
\* score in the order in which the two searches retrieved them; and when a
\* duplicate is detected, duplicateScore is the highest score among the
\* duplicate candidates
C28_BucketsPartitionAndOrder ==
    ret.op = "recall" =>
        LET summary == ret.summary
            query == call.query
            limit == Get(OrElse(query.limit, {LIMIT_DEFAULT}))
            retrieved == SearchMemories(store, query.vendorName, limit)
                         \o SearchMemories(store, query.invoiceNumber, limit)
            Position(m) ==
                CHOOSE i \in DOMAIN retrieved :
                    /\ retrieved[i].id = m.memory.id
                    /\ \A j \in DOMAIN retrieved : retrieved[j].id = m.memory.id => i <= j
            Sound(bucket, category) ==
                /\ Range(bucket) = {m \in Range(summary.allMemories) :
                                       m.content.category = {category}}
                /\ Cardinality({bucket[i].memory.id : i \in DOMAIN bucket}) = Len(bucket)
                /\ \A i, j \in DOMAIN bucket :
                       i < j => /\ bucket[i].score >= bucket[j].score
                                /\ bucket[i].score = bucket[j].score =>
                                       Position(bucket[i]) < Position(bucket[j])
            candidates ==
                {m \in Range(summary.resolutionMemories) :
                    /\ \E v \in m.content.vendorName :
                           ToLowerCase(v) = ToLowerCase(query.vendorName)
                    /\ \E n \in m.content.invoiceNumber : n = query.invoiceNumber
                    /\ \E d \in m.content.invoiceDate : d # ""}
        IN /\ Sound(summary.vendorMemories, "vendor")
           /\ Sound(summary.correctionMemories, "correction")
           /\ Sound(summary.resolutionMemories, "resolution")
           /\ summary.duplicateDetected =>
                  /\ \E m \in candidates : summary.duplicateScore = m.score
                  /\ \A m \in candidates : summary.duplicateScore >= m.score

\* Two duplicate candidates were retrieved, the one of the lower score
\* first: the resolution bucket holds the other one first, and its score is
\* the duplicateScore
C28_Witness ==
    /\ ret.op = "recall"
    /\ Len(store) = 2
    /\ Len(ret.summary.resolutionMemories) = 2
    /\ ret.summary.resolutionMemories[1].memory.id = store[2].id
    /\ ret.summary.resolutionMemories[2].memory.id = store[1].id
    /\ ret.summary.resolutionMemories[1].score > ret.summary.resolutionMemories[2].score
    /\ ret.summary.duplicateDetected
    /\ ret.summary.duplicateScore = ret.summary.resolutionMemories[1].score
    /\ IsDuplicateCandidate(ret.summary.resolutionMemories[2], call.query)

\* C29 as stated: a stored memory whose content cannot be parsed, or whose
\* parsed payload lacks a confidence, a usageCount or a category, appears in
\* no bucket and not in allMemories, and has no influence on
\* duplicateDetected: the flag is the one recall gives for the store without
\* such memories
C29_MalformedNeverInfluences ==
    ret.op = "recall" =>
        LET Malformed(m) ==
                \/ ~m.content.json
                \/ m.content.confidence = {}
                \/ m.content.usageCount = {}
                \/ m.content.category = {}
            malformedIds == {m.id : m \in {x \in Range(store) : Malformed(x)}}
            Ids(scored) == {scored[i].memory.id : i \in DOMAIN scored}
            wellFormed == SelectSeq(store, LAMBDA m : ~Malformed(m))
        IN /\ Ids(ret.summary.allMemories) \cap malformedIds = {}
           /\ Ids(ret.summary.vendorMemories) \cap malformedIds = {}
           /\ Ids(ret.summary.correctionMemories) \cap malformedIds = {}
           /\ Ids(ret.summary.resolutionMemories) \cap malformedIds = {}
           /\ ret.summary.duplicateDetected
                  = RecallMemories(wellFormed, call.query).duplicateDetected

\* C29 amended: such a memory appears in no bucket and not in allMemories,
\* and among the rows the two searches retrieve it counts for nothing: the
\* summary, duplicateDetected included, is the one built from the retrieved
\* rows with the malformed ones left out.  (It still takes one of the places
\* the search limit allows.)
C29_MalformedNeverScored ==
    ret.op = "recall" =>
        LET Malformed(m) ==
                \/ ~m.content.json
                \/ m.content.confidence = {}
                \/ m.content.usageCount = {}
                \/ m.content.category = {}
            malformedIds == {m.id : m \in {x \in Range(store) : Malformed(x)}}
            Ids(scored) == {scored[i].memory.id : i \in DOMAIN scored}
            limit == Get(OrElse(call.query.limit, {LIMIT_DEFAULT}))
            retrieved ==
                CombineById(SearchMemories(store, call.query.vendorName, limit)
                            \o SearchMemories(store, call.query.invoiceNumber, limit), 1, {})
            wellFormed == SelectSeq(retrieved, LAMBDA m : ~Malformed(m))
        IN /\ Ids(ret.summary.allMemories) \cap malformedIds = {}
           /\ Ids(ret.summary.vendorMemories) \cap malformedIds = {}
           /\ Ids(ret.summary.correctionMemories) \cap malformedIds = {}
           /\ Ids(ret.summary.resolutionMemories) \cap malformedIds = {}
           /\ ret.summary = SummaryOf(ScoreAll(wellFormed, call.query, 1), call.query)

\* The store holds a record that matches the query in vendor, number and
\* date but carries no confidence, and a text that is not JSON; both are
\* retrieved, and the recall returns an empty summary without a duplicate
C29_Witness ==
    /\ ret.op = "recall"
    /\ Len(store) = 2
    /\ store[1].content = [RecallBase EXCEPT !.confidence = {}]
    /\ ~store[2].content.json
    /\ call.query.limit = {}
    /\ call.query.invoiceDate = 10
    /\ ret.summary.allMemories = <<>>
    /\ ret.summary.resolutionMemories = <<>>
    /\ ~ret.summary.duplicateDetected

----------------------------------------------------------------------------
(* The create path: properties of SpecLearn *)

----------------------------------------------------------------------------
(* The update path: properties of SpecLearn *)

----------------------------------------------------------------------------
(* The learn loop: properties of SpecReview *)

\* C32: in a run of processInvoiceWithMemory with human feedback, Learn is
\* called for exactly the proposed corrections whose field is in
\* approvedCorrections or rejectedCorrections, once each and in their order:
\* memoryUpdates holds one entry per such correction, for the memory that
\* backs it or for a new id, and so never more entries than corrections;
\* each such call adds one record to the store; a stored memory that backs
\* no such correction is left as it was; and when the feedback names none of
\* the corrections nothing is written at all
C32_OnlyNamedCorrectionsLearn ==
    [][(call'.op = "process" /\ call'.humanFeedback # {}) =>
          LET humanFeedback == Get(call'.humanFeedback)
              corrections == ret'.output.proposedCorrections
              named == SelectSeq(corrections,
                                 LAMBDA c : \/ c.field \in humanFeedback.approvedCorrections
                                            \/ c.field \in humanFeedback.rejectedCorrections)
              updates == ret'.output.memoryUpdates
          IN /\ Len(updates) = Len(named)
             /\ Len(updates) <= Len(corrections)
             /\ \A j \in DOMAIN updates :
                    IF named[j].memoryId # {}
                    THEN named[j].memoryId = {updates[j].memoryId}
                    ELSE updates[j].memoryId \notin {store[i].id : i \in DOMAIN store}
             /\ Len(store') = Len(store) + Len(named)
             /\ nextUuid' = nextUuid + Len(named)
             /\ \A i \in DOMAIN store :
                    (\A j \in DOMAIN named : named[j].memoryId # {store[i].id})
                        => store'[i] = store[i]
             /\ named = <<>> => (store' = store /\ updates = <<>>)]_vars

\* A run proposed three corrections, two for the line items from the stored
\* freight memory and one for the payment terms, and the feedback approved
\* the payment terms only: one update is reported, one record was added, and
\* the freight memory is as it was seeded
C32_Witness ==
    /\ call.op = "process"
    /\ clock = 1
    /\ call.humanFeedback =
           {[approvedCorrections |-> {"paymentTermsNormalized"}, rejectedCorrections |-> {}]}
    /\ Len(ret.output.proposedCorrections) = 3
    /\ ret.output.proposedCorrections[1].memoryId = {"seed-1"}
    /\ ret.output.proposedCorrections[3].field = "paymentTermsNormalized"
    /\ Len(ret.output.memoryUpdates) = 1
    /\ Len(store) = 2
    /\ store[1].id = "seed-1"
    /\ store[1].updatedAt = 0
    /\ store[1].content.usageCount = {1}

\* C33: each memoryUpdates entry of a run reports what the store held around
\* the Learn call it stands for: previousConfidence is the confidence stored
\* under the correction's memoryId when the loop reached the correction (0.7
\* when the correction has no memory), and newConfidence and usageCount are
\* the confidence and usageCount stored under the entry's memoryId when that
\* call had returned
C33_UpdatesReportStoredValues ==
    [][(call'.op = "process" /\ call'.humanFeedback # {}) =>
          LET humanFeedback == Get(call'.humanFeedback)
              corrections == ret'.output.proposedCorrections
              \* the loop after its first k passes
              After(k) ==
                  LearnFromFeedback([store |-> store, uuids |-> nextUuid, memoryUpdates |-> <<>>],
                                    SubSeq(corrections, 1, k), 1, humanFeedback,
                                    ret'.invoice, ret'.recall, clock')
              Stored(st, id) == {st[i].content : i \in {n \in DOMAIN st : st[n].id = id}}
          IN /\ After(Len(corrections)).store = store'
             /\ After(Len(corrections)).memoryUpdates = ret'.output.memoryUpdates
             /\ \A k \in DOMAIN corrections :
                    (\/ corrections[k].field \in humanFeedback.approvedCorrections
                     \/ corrections[k].field \in humanFeedback.rejectedCorrections)
                    => LET before == After(k - 1)
                           after == After(k)
                           entry == after.memoryUpdates[Len(after.memoryUpdates)]
                           existing == UNION {Stored(before.store, id) :
                                                 id \in corrections[k].memoryId}
                       IN /\ Len(after.memoryUpdates) = Len(before.memoryUpdates) + 1
                          /\ {entry.previousConfidence} =
                                 (IF existing = {} THEN {70}
                                  ELSE UNION {content.confidence : content \in existing})
                          /\ Stored(after.store, entry.memoryId) # {}
                          /\ \A content \in Stored(after.store, entry.memoryId) :
                                 /\ content.confidence = {entry.newConfidence}
                                 /\ content.usageCount = {entry.usageCount}]_vars

\* Both line items were approved against the freight memory stored at 0.75
\* with one use: the first entry reports 0.75 -> 0.80 and 2 uses, the second
\* 0.80 -> 0.85 and 3 uses, which is what the store holds at the end
C33_Witness ==
    /\ call.op = "process"
    /\ Len(ret.output.memoryUpdates) = 2
    /\ ret.output.memoryUpdates[1] =
           [memoryId |-> "seed-1", previousConfidence |-> 75, newConfidence |-> 80,
            usageCount |-> 2, action |-> "reinforce"]
    /\ ret.output.memoryUpdates[2] =
           [memoryId |-> "seed-1", previousConfidence |-> 80, newConfidence |-> 85,
            usageCount |-> 3, action |-> "reinforce"]
    /\ store[1].id = "seed-1"
    /\ store[1].content.confidence = {85}
    /\ store[1].content.usageCount = {3}

\* C39: when n >= 1 proposed corrections of one run are backed by the same
\* stored memory and all their fields are approved, Learn updates that
\* memory once per correction: the run raises
\* its usageCount by n and its confidence by n steps of 0.05, up to 0.95, and
\* memoryUpdates holds n entries with that memory's id
C39_SharedMemoryLearnsPerCorrection ==
    [][(call'.op = "process" /\ call'.humanFeedback # {}) =>
          \A i \in DOMAIN store :
              LET humanFeedback == Get(call'.humanFeedback)
                  corrections == ret'.output.proposedCorrections
                  updates == ret'.output.memoryUpdates
                  backed == {k \in DOMAIN corrections : corrections[k].memoryId = {store[i].id}}
                  n == Cardinality(backed)
                  c == Get(store[i].content.confidence)
              IN (/\ n >= 1
                  /\ \A k \in backed : corrections[k].field \in humanFeedback.approvedCorrections)
                 => /\ store'[i].id = store[i].id
                    /\ store'[i].content.usageCount = {Get(store[i].content.usageCount) + n}
                    /\ store'[i].content.confidence = {IF c + 5 * n <= 95 THEN c + 5 * n ELSE 95}
                    /\ Cardinality({j \in DOMAIN updates : updates[j].memoryId = store[i].id})
                           = n]_vars

\* One freight memory at 0.90 served both line items and both were approved:
\* after the run it stands at 0.95 with two more uses, and the run reports
\* two updates for it, 0.90 -> 0.95 and 0.95 -> 0.95
C39_Witness ==
    /\ call.op = "process"
    /\ clock = 1
    /\ call.humanFeedback = {[approvedCorrections |-> {"lineItem:1:sku", "lineItem:2:sku"},
                              rejectedCorrections |-> {}]}
    /\ \A k \in {1, 2} : /\ ret.output.proposedCorrections[k].memoryId = {"seed-1"}
                         /\ ret.output.proposedCorrections[k].confidence = 90
    /\ Len(ret.output.memoryUpdates) = 2
    /\ \A j \in {1, 2} : ret.output.memoryUpdates[j].memoryId = "seed-1"
    /\ ret.output.memoryUpdates[1].newConfidence = 95
    /\ ret.output.memoryUpdates[2].previousConfidence = 95
    /\ ret.output.memoryUpdates[2].newConfidence = 95
    /\ store[1].id = "seed-1"
    /\ store[1].content.confidence = {95}
    /\ store[1].content.usageCount = {3}

\* C40: the action of every memoryUpdates entry is reinforce when the
\* correction's field is in approvedCorrections, also when it is in both
\* lists, and decay otherwise; create is never reported, even for an entry
\* whose memory the Learn call created
C40_ActionIsReinforceOrDecay ==
    [][(call'.op = "process" /\ call'.humanFeedback # {}) =>
          LET humanFeedback == Get(call'.humanFeedback)
              named == SelectSeq(ret'.output.proposedCorrections,
                                 LAMBDA c : \/ c.field \in humanFeedback.approvedCorrections
                                            \/ c.field \in humanFeedback.rejectedCorrections)
              updates == ret'.output.memoryUpdates
          IN /\ Len(updates) = Len(named)
             /\ \A j \in DOMAIN updates :
                    /\ updates[j].action =
                           (IF named[j].field \in humanFeedback.approvedCorrections
                            THEN "reinforce" ELSE "decay")
                    /\ updates[j].action # "create"]_vars

\* On the empty store the tax amount was approved, the first line item was
\* both approved and rejected, and the second was rejected: all three Learn
\* calls created a memory, and the entries say reinforce, reinforce, decay
C40_Witness ==
    /\ call.op = "process"
    /\ clock = 1
    /\ call.humanFeedback = {[approvedCorrections |-> {"taxAmount", "lineItem:1:sku"},
                              rejectedCorrections |-> {"lineItem:1:sku", "lineItem:2:sku"}]}
    /\ Len(store) = 3
    /\ [k \in 1..3 |-> ret.output.proposedCorrections[k].field]
           = <<"taxAmount", "lineItem:1:sku", "lineItem:2:sku">>
    /\ \A k \in 1..3 : ret.output.proposedCorrections[k].memoryId = {}
    /\ [j \in 1..3 |-> ret.output.memoryUpdates[j].action]
           = <<"reinforce", "reinforce", "decay">>
    /\ \A j \in 1..3 : ret.output.memoryUpdates[j].memoryId = store[j].id

----------------------------------------------------------------------------
(* Aggregate confidence and the rules of decide: properties of SpecApply *)

\* C34: apply's aggregateConfidence is the greatest confidence among the
\* corrections it emitted, applied or only proposed, and 0 when it emitted
\* none; decide's confidenceScore is that value clamped to [0, 1]
C34_AggregateIsMaxConfidence ==
    ret.op = "apply" =>
        LET corrections == ret.applyResult.proposedCorrections
            aggregate == ret.applyResult.aggregateConfidence
        IN /\ corrections = <<>> => aggregate = 0
           /\ corrections # <<>> =>
                  /\ \E k \in DOMAIN corrections : corrections[k].confidence = aggregate
                  /\ \A k \in DOMAIN corrections : corrections[k].confidence <= aggregate
           /\ ret.decision.confidenceScore =
                  (IF aggregate < 0 THEN 0 ELSE IF aggregate > 100 THEN 100 ELSE aggregate)
           /\ ret.output.confidenceScore = ret.decision.confidenceScore

\* A serviceDate memory that stands at 1.05 filled the service date and the
\* payment terms were proposed at the default 0.75: the aggregate is 1.05,
\* the greater of the two, and the score is 1
C34_Witness ==
    /\ ret.op = "apply"
    /\ Len(ret.applyResult.proposedCorrections) = 2
    /\ ret.applyResult.proposedCorrections[1].field = "serviceDate"
    /\ ret.applyResult.proposedCorrections[1].confidence = 105
    /\ ret.applyResult.proposedCorrections[1].applied
    /\ ret.applyResult.proposedCorrections[2].field = "paymentTermsNormalized"
    /\ ret.applyResult.proposedCorrections[2].confidence = 75
    /\ ~ret.applyResult.proposedCorrections[2].applied
    /\ ret.applyResult.aggregateConfidence = 105
    /\ ret.decision.confidenceScore = 100

\* C35: every correction apply emits is applied exactly when its confidence
\* is >= 0.8, and every applied correction has an applied-memory record with
\* its field, its confidence and applied = true; so the test decide makes on
\* the applied-memory records, some record applied at confidence >= 0.8,
\* agrees with the same test on the proposed corrections
C35_AppliedIffHighConfidence ==
    ret.op = "apply" =>
        LET corrections == ret.applyResult.proposedCorrections
            records == ret.applyResult.appliedMemories
        IN /\ \A k \in DOMAIN corrections :
                  /\ corrections[k].applied <=> corrections[k].confidence >= 80
                  /\ corrections[k].applied =>
                         \E i \in DOMAIN records :
                             /\ records[i].field = corrections[k].field
                             /\ records[i].confidence = corrections[k].confidence
                             /\ records[i].applied
           /\ (\E i \in DOMAIN records : records[i].applied /\ records[i].confidence >= 80)
                  <=> (\E k \in DOMAIN corrections :
                           corrections[k].applied /\ corrections[k].confidence >= 80)

\* A freight memory at 0.80 set the line item's SKU and a serviceDate memory
\* at 0.70 only proposed the service date: two corrections, one applied, and
\* two applied-memory records, of which the line item's carries the flag
C35_Witness ==
    /\ ret.op = "apply"
    /\ Len(ret.applyResult.proposedCorrections) = 2
    /\ ret.applyResult.proposedCorrections[1].field = "serviceDate"
    /\ ret.applyResult.proposedCorrections[1].confidence = 70
    /\ ~ret.applyResult.proposedCorrections[1].applied
    /\ ret.applyResult.proposedCorrections[2].field = "lineItem:1:sku"
    /\ ret.applyResult.proposedCorrections[2].confidence = 80
    /\ ret.applyResult.proposedCorrections[2].applied
    /\ Len(ret.applyResult.appliedMemories) = 2
    /\ ~ret.applyResult.appliedMemories[1].applied
    /\ ret.applyResult.appliedMemories[2].applied
    /\ ret.applyResult.appliedMemories[2].field = "lineItem:1:sku"

\* C36: the four rules of decide leave no case out: whatever the duplicate
\* flag, the applied-memory records and the proposed corrections, at least
\* one rule fires and the reasoning is not empty; and the explanation that
\* auto-correction is allowed is part of the reasoning exactly when
\* requiresHumanReview is false
C36_RulesAreExhaustive ==
    ret.op = "apply" =>
        /\ ret.decision.reasoning # ""
        /\ \E text \in {DUPLICATE_TEXT, AUTO_TEXT, MEDIUM_TEXT, NONE_TEXT} :
               Includes(ret.decision.reasoning, text)
        /\ Includes(ret.decision.reasoning, AUTO_TEXT) <=> ~ret.decision.requiresHumanReview

\* No duplicate, and the one correction was applied at high confidence: the
\* review is waived and the reasoning is the auto-correction explanation
C36_Witness ==
    /\ ret.op = "apply"
    /\ ~call.recall.duplicateDetected
    /\ Len(ret.applyResult.proposedCorrections) = 1
    /\ ret.applyResult.proposedCorrections[1].applied
    /\ ~ret.decision.requiresHumanReview
    /\ ret.decision.reasoning = AUTO_TEXT

----------------------------------------------------------------------------
(* Feedback over several rounds: properties of SpecReview *)

----------------------------------------------------------------------------
(* The resolution record an update leaves: properties of SpecCrowded *)

\* C37 as stated: a run whose memoryUpdates names a memory that was stored
\* before the run adds a resolution record carrying the invoice's vendor,
\* number and date; and whenever the store holds a resolution record with
\* the vendor and number of the invoice a run is given, and a date, that run
\* reports a duplicate, requires human review in its decision and its
\* output, and does not give the automatic reasoning
C37_LaterRunsReportDuplicate ==
    [][call'.op = "process" =>
          LET invoice == call'.invoice
              IsResolutionFor(m) ==
                  /\ m.content.category = {"resolution"}
                  /\ m.content.vendorName = {invoice.vendorName}
                  /\ m.content.invoiceNumber = {invoice.invoiceNumber}
                  /\ m.content.invoiceDate # {}
              updates == ret'.output.memoryUpdates
              updatedExisting ==
                  \E k \in DOMAIN updates :
                      \E i \in DOMAIN store : store[i].id = updates[k].memoryId
          IN /\ updatedExisting =>
                    \E j \in DOMAIN store' :
                        /\ j > Len(store)
                        /\ IsResolutionFor(store'[j])
                        /\ store'[j].content.invoiceDate = {ToISOString(invoice.issuedAt)}
             /\ (\E i \in DOMAIN store : IsResolutionFor(store[i])) =>
                    /\ ret'.recall.duplicateDetected
                    /\ ret'.decision.requiresHumanReview
                    /\ ret'.output.requiresHumanReview
                    /\ ~Includes(ret'.decision.reasoning, AUTO_TEXT)]_vars

\* C37, for the records recall retrieves: a run whose memoryUpdates names a
\* memory that was stored before the run adds a resolution record carrying
\* the invoice's vendor, number and date; and whenever the two searches of
\* a run's recall, by vendor name and by invoice number at the default
\* limit, retrieved a resolution record with the vendor and number of the
\* invoice and a date (it is among the resolutionMemories of the run's
\* recall summary), that run reports a duplicate, requires human review in
\* its decision and its output, and does not give the automatic reasoning,
\* whatever the date of the invoice
C37_RetrievedResolutionForcesReview ==
    [][call'.op = "process" =>
          LET invoice == call'.invoice
              IsResolutionFor(m) ==
                  /\ m.content.category = {"resolution"}
                  /\ m.content.vendorName = {invoice.vendorName}
                  /\ m.content.invoiceNumber = {invoice.invoiceNumber}
                  /\ m.content.invoiceDate # {}
              retrieved == ret'.recall.resolutionMemories
              updates == ret'.output.memoryUpdates
              updatedExisting ==
                  \E k \in DOMAIN updates :
                      \E i \in DOMAIN store : store[i].id = updates[k].memoryId
          IN /\ updatedExisting =>
                    \E j \in DOMAIN store' :
                        /\ j > Len(store)
                        /\ IsResolutionFor(store'[j])
                        /\ store'[j].content.invoiceDate = {ToISOString(invoice.issuedAt)}
             /\ (\E i \in DOMAIN retrieved : IsResolutionFor(retrieved[i])) =>
                    /\ ret'.recall.duplicateDetected
                    /\ ret'.decision.requiresHumanReview
                    /\ ret'.output.requiresHumanReview
                    /\ ~Includes(ret'.decision.reasoning, AUTO_TEXT)]_vars

\* On a store of the freight memory and one correction memory fewer than
\* the limit, a first run on the invoice of day 10 had both freight lines
\* approved and left a resolution record; the run just made was given the
\* invoice re-issued on day 20 and no feedback: the search by invoice number
\* returned the record, and the run reports a duplicate and requires review
C37_Witness ==
    /\ call.op = "process"
    /\ clock = 2
    /\ call.invoice.issuedAt = 20
    /\ call.humanFeedback = {}
    /\ Len(store) = LIMIT_DEFAULT + 2
    /\ \E i \in DOMAIN store : /\ store[i].content.category = {"resolution"}
                               /\ store[i].content.invoiceNumber = {call.invoice.invoiceNumber}
                               /\ store[i].content.invoiceDate = {ToISOString(10)}
    /\ ret.recall.duplicateDetected
    /\ ret.decision.requiresHumanReview
    /\ ret.output.requiresHumanReview

====
